---- MODULE Spec2Model ----
(***************************************************************************)
(* Model of the local data-management layer of BizOptima AI:               *)
(* src/src/services/dataManager.ts (class DataManager) together with the   *)
(* durable medium it writes through to (window.localStorage), its import   *)
(* and export of files, and the upload control of the DataInput component  *)
(* (src/src/components/operations/OperationalAnalyzer.tsx).                *)
(*                                                                         *)
(* Values                                                                  *)
(*   - a JavaScript object is a TLA+ record; a Partial<T> argument is a    *)
(*     function whose DOMAIN holds exactly the fields the caller supplied; *)
(*   - null is Null; a Date object is [Date |-> t]; the ISO string that    *)
(*     JSON.stringify turns it into is [iso |-> t];                        *)
(*   - the clock counts days; DateTable[t + 1] is the YYYY-MM-DD string of *)
(*     day t, which is what toISOString().split('T')[0] yields;            *)
(*   - a localStorage item is NoItem (getItem returns null), Malformed     *)
(*     (text JSON.parse throws on) or [json |-> v], the text that          *)
(*     JSON.stringify produces for v.                                      *)
(***************************************************************************)
EXTENDS Integers, Sequences, FiniteSets, TLC

VARIABLES
    businessData,       \* DataManager.businessData : BusinessData | null
    financialRecords,   \* DataManager.financialRecords : FinancialRecord[]
    kpiData,            \* DataManager.kpiData : KPIData[]
    storage,            \* localStorage, the three keys of the store
    now,                \* the wall clock read by new Date() / Date.now()
    lastOp,             \* the latest call on the store or on the upload
                        \* handler: its name, argument, the entity or the
                        \* store it found (pre), the time it ran at, the
                        \* setItem that failed and how the call ended
    inflight,           \* the import calls suspended at their file read
    isUploading,        \* DataInput: the isUploading state
    message,            \* DataInput: the message state
    fileInput,          \* DataInput: the value of the file input element
    saved               \* the latest file handed to saveAs, with the records
                        \* collection it was written from

vars == <<businessData, financialRecords, kpiData, storage, now, lastOp,
          inflight, isUploading, message, fileInput, saved>>

\* the page around the store: pending imports, the DataInput component and
\* the downloads
page == <<inflight, isUploading, message, fileInput, saved>>

-----------------------------------------------------------------------------
(* Bounds of the model *)

MaxTime == 1        \* the clock runs from day 0 to day MaxTime
MaxRecords == 2     \* SpecRecords: longest records collection explored
MaxKpis == 2        \* SpecKpis: longest indicator collection explored

-----------------------------------------------------------------------------
(* Values *)

Null == [null |-> TRUE]

DateObj(t) == [Date |-> t]

\* Date.prototype.toJSON: a Date becomes its ISO string, a string stays.
DateToJSON(v) == IF "Date" \in DOMAIN v THEN [iso |-> v.Date] ELSE v

DateTable ==
    <<"2024-01-01", "2024-01-02", "2024-01-03", "2024-01-04", "2024-01-05">>

\* new Date().toISOString().split('T')[0]
ISODate(t) == DateTable[t + 1]

\* new Date(date).getTime(), in days since the first day of DateTable
GetTime(date) == (CHOOSE i \in 1..Len(DateTable) : DateTable[i] = date) - 1

Base36Digits ==
    <<"0", "1", "2", "3", "4", "5", "6", "7", "8", "9", "a", "b", "c", "d",
      "e", "f", "g", "h", "i", "j", "k", "l", "m", "n", "o", "p", "q", "r",
      "s", "t", "u", "v", "w", "x", "y", "z">>

RECURSIVE ToString36(_)
\* Number.prototype.toString(36)
ToString36(n) ==
    IF n < 36 THEN Base36Digits[n + 1]
    ELSE ToString36(n \div 36) \o Base36Digits[(n % 36) + 1]

\* Math.random().toString(36).substr(2): the outcomes the model draws from
RandomTails == {"4fzyo82m", "k9x1c0qa"}

GenerateId(t, tail) == ToString36(t) \o tail

-----------------------------------------------------------------------------
(* localStorage *)

BUSINESS_DATA_KEY == "bizoptima_business_data"
FINANCIAL_RECORDS_KEY == "bizoptima_financial_records"
KPI_DATA_KEY == "bizoptima_kpi_data"

StorageKeys == {BUSINESS_DATA_KEY, FINANCIAL_RECORDS_KEY, KPI_DATA_KEY}

NoItem == [none |-> TRUE]
Malformed == [text |-> "{not json"]

EmptyStorage == [k \in StorageKeys |-> NoItem]

\* JSON.stringify of a BusinessData object: the two Date fields become strings
BusinessToJSON(bd) ==
    [bd EXCEPT !.createdAt = DateToJSON(bd.createdAt),
               !.updatedAt = DateToJSON(bd.updatedAt)]

StringifyBusiness(bd) == [json |-> BusinessToJSON(bd)]

\* JSON.stringify of an array of plain records of strings and numbers
StringifyList(list) == [json |-> list]

\* localStorage.getItem(key) yields a truthy string
HasItem(item) == item # NoItem

\* JSON.parse(item) throws
ParseThrows(item) == item = Malformed

JSONParse(item) == item.json

-----------------------------------------------------------------------------
(* saveToStorage: the setItem calls run in order; setItem number failAt     *)
(* throws (0: none does), the calls after it are not made, and the         *)
(* exception is caught inside saveToStorage.                               *)

\* the setItem calls one saveToStorage can reach: the first one is made only
\* when a Profile exists
FailPoints(bd) == {0, 2, 3} \cup (IF bd # Null THEN {1} ELSE {})

\* saveToStorage without its try/catch: the exception reaches the caller
SaveToStorageNoCatch(bd, fr, kpis, st, failAt) ==
    LET s1 == IF bd # Null /\ failAt # 1
              THEN [st EXCEPT ![BUSINESS_DATA_KEY] = StringifyBusiness(bd)]
              ELSE st
        s2 == IF failAt \notin {1, 2}
              THEN [s1 EXCEPT ![FINANCIAL_RECORDS_KEY] = StringifyList(fr)]
              ELSE s1
        s3 == IF failAt = 0
              THEN [s2 EXCEPT ![KPI_DATA_KEY] = StringifyList(kpis)]
              ELSE s2
    IN  [storage |-> s3, threw |-> failAt # 0]

SaveToStorage(bd, fr, kpis, st, failAt) ==
    LET s1 == IF bd # Null /\ failAt # 1
              THEN [st EXCEPT ![BUSINESS_DATA_KEY] = StringifyBusiness(bd)]
              ELSE st
        s2 == IF failAt \notin {1, 2}
              THEN [s1 EXCEPT ![FINANCIAL_RECORDS_KEY] = StringifyList(fr)]
              ELSE s1
        s3 == IF failAt = 0
              THEN [s2 EXCEPT ![KPI_DATA_KEY] = StringifyList(kpis)]
              ELSE s2
    IN  [storage |-> s3, threw |-> FALSE]

-----------------------------------------------------------------------------
(* loadFromStorage: one try block around the three reads *)

LoadFromStorage(bd, fr, kpis, st) ==
    LET b == st[BUSINESS_DATA_KEY]
        f == st[FINANCIAL_RECORDS_KEY]
        k == st[KPI_DATA_KEY]
        bThrows == HasItem(b) /\ ParseThrows(b)
        fThrows == ~bThrows /\ HasItem(f) /\ ParseThrows(f)
        kThrows == ~bThrows /\ ~fThrows /\ HasItem(k) /\ ParseThrows(k)
    IN  [businessData |->
            IF HasItem(b) /\ ~bThrows THEN JSONParse(b) ELSE bd,
         financialRecords |->
            IF ~bThrows /\ HasItem(f) /\ ~fThrows THEN JSONParse(f) ELSE fr,
         kpiData |->
            IF ~bThrows /\ ~fThrows /\ HasItem(k) /\ ~kThrows
            THEN JSONParse(k) ELSE kpis]

-----------------------------------------------------------------------------
(* Inputs *)

\* data[f] ?? dflt: only an omitted field takes the default
OrStrNullish(data, f, dflt) == IF f \in DOMAIN data THEN data[f] ELSE dflt

\* data[f] || dflt for a text field
OrStr(data, f, dflt) ==
    IF f \in DOMAIN data /\ data[f] # "" THEN data[f] ELSE dflt

\* data[f] || dflt for a numeric field
OrNum(data, f, dflt) ==
    IF f \in DOMAIN data /\ data[f] # 0 THEN data[f] ELSE dflt

\* data[f] || dflt for an object field (an object is always truthy)
OrObj(data, f, dflt) == IF f \in DOMAIN data THEN data[f] ELSE dflt

ProfileInputs ==
    { <<>>,
      [companyName |-> "Acme", revenue |-> 1000, costs |-> 600,
       assets |-> 5000, liabilities |-> 2000],
      [id |-> "biz-1", createdAt |-> DateObj(0), companyName |-> "Acme"],
      [id |-> "", companyName |-> "Acme"] }

InputDates == {ISODate(0), ISODate(1)}

Payloads ==
    { [revenue |-> 100, expenses |-> 60, profit |-> 40, cashFlow |-> 30],
      [revenue |-> 200, expenses |-> 150, profit |-> 50, cashFlow |-> 45] }

WithDate(p, d) ==
    [date |-> d, revenue |-> p.revenue, expenses |-> p.expenses,
     profit |-> p.profit, cashFlow |-> p.cashFlow]

\* arguments of addFinancialRecord: the date is optional
RecordInputs == Payloads \cup {WithDate(p, d) : p \in Payloads, d \in InputDates}

\* arguments of updateFinancialRecord: Partial<FinancialRecord>
RecordUpdates == Payloads \cup {[date |-> d] : d \in InputDates}

Metrics == {"Churn", "NPS"}

KpiInputs ==
    { [metric |-> "Churn", value |-> 5, target |-> 3, unit |-> "%",
       category |-> "customer"],
      [metric |-> "Churn", value |-> 4, target |-> 3, unit |-> "%",
       category |-> "customer"],
      [metric |-> "NPS", value |-> 40, target |-> 50, unit |-> "",
       category |-> "growth"] }

\* arguments of setKPIData: arrays the caller builds
KpiLists ==
    {<<>>} \cup {<<k>> : k \in KpiInputs}
           \cup {<<j, k>> : j \in KpiInputs, k \in KpiInputs}

\* arguments of updateKPI: Partial<KPIData>
KpiUpdates == {[value |-> 4]} \cup {[metric |-> m] : m \in Metrics}

-----------------------------------------------------------------------------
(* Array helpers *)

\* financialRecords.findIndex(r => r.date === date), 1-based; 0 stands for -1
IndexOfDate(fr, date) ==
    IF \E i \in 1..Len(fr) : fr[i].date = date
    THEN CHOOSE i \in 1..Len(fr) :
            fr[i].date = date /\ \A j \in 1..(i - 1) : fr[j].date # date
    ELSE 0

\* kpiData.findIndex(k => k.metric === metric), 1-based; 0 stands for -1
IndexOfMetric(kpis, metric) ==
    IF \E i \in 1..Len(kpis) : kpis[i].metric = metric
    THEN CHOOSE i \in 1..Len(kpis) :
            kpis[i].metric = metric /\ \A j \in 1..(i - 1) : kpis[j].metric # metric
    ELSE 0

\* { ...old, ...updates }
Merge(old, updates) ==
    [f \in DOMAIN old \cup DOMAIN updates |->
        IF f \in DOMAIN updates THEN updates[f] ELSE old[f]]

RECURSIVE InsertByDate(_, _)
InsertByDate(r, s) ==
    IF s = <<>> THEN <<r>>
    ELSE IF GetTime(r.date) - GetTime(Head(s).date) <= 0 THEN <<r>> \o s
    ELSE <<Head(s)>> \o InsertByDate(r, Tail(s))

RECURSIVE SortByDate(_)
\* Array.prototype.sort((a, b) => getTime(a.date) - getTime(b.date)), stable
SortByDate(s) ==
    IF s = <<>> THEN <<>> ELSE InsertByDate(Head(s), SortByDate(Tail(s)))

-----------------------------------------------------------------------------
(* Calls *)

\* the record of a call: every store operation has return type void, so a
\* call either returns or lets an exception reach the caller
Call(op, arg, pre, failAt, save) ==
    [op |-> op, arg |-> arg, pre |-> pre, at |-> now, failAt |-> failAt,
     outcome |-> IF save.threw THEN "threw" ELSE "returned"]

NoSave == [storage |-> storage, threw |-> FALSE]

\* new DataManager(): field initialisers, then loadFromStorage()
Construct ==
    LET m == LoadFromStorage(Null, <<>>, <<>>, storage)
    IN  /\ businessData' = m.businessData
        /\ financialRecords' = m.financialRecords
        /\ kpiData' = m.kpiData
        /\ lastOp' = Call("constructor", <<>>, <<>>, 0, NoSave)
        /\ UNCHANGED <<storage, now>>
        /\ UNCHANGED page

\* the page is opened for the first time: localStorage holds none of the keys
Init ==
    /\ storage = EmptyStorage
    /\ businessData = Null
    /\ financialRecords = <<>>
    /\ kpiData = <<>>
    /\ now = 0
    /\ lastOp = [op |-> "constructor", arg |-> <<>>, pre |-> <<>>, at |-> 0,
                 failAt |-> 0, outcome |-> "returned"]
    /\ inflight = <<>>
    /\ isUploading = FALSE
    /\ message = Null
    /\ fileInput = ""
    /\ saved = Null

\* time passes between two calls
Tick ==
    /\ now < MaxTime
    /\ now' = now + 1
    /\ UNCHANGED <<businessData, financialRecords, kpiData, storage, lastOp>>
    /\ UNCHANGED page

-----------------------------------------------------------------------------
(* Business data *)

NewBusinessData(data, t, tail) ==
    [id |-> OrStr(data, "id", GenerateId(t, tail)),
     companyName |-> OrStr(data, "companyName", ""),
     industry |-> OrStr(data, "industry", ""),
     employees |-> OrNum(data, "employees", 0),
     revenue |-> OrNum(data, "revenue", 0),
     costs |-> OrNum(data, "costs", 0),
     assets |-> OrNum(data, "assets", 0),
     liabilities |-> OrNum(data, "liabilities", 0),
     cashFlow |-> OrNum(data, "cashFlow", 0),
     createdAt |-> OrObj(data, "createdAt", DateObj(t)),
     updatedAt |-> DateObj(t)]

\* setBusinessData with the defaults of lines 53-60 replaced by the values of
\* the Profile it finds: an omitted field keeps its previous value
SetBusinessDataOverPrevious(data, tail, failAt) ==
    LET fresh == NewBusinessData(data, now, tail)
        Kept(f) == /\ businessData # Null
                   /\ f \notin DOMAIN data
                   /\ f \notin {"id", "createdAt", "updatedAt"}
        bd == [f \in DOMAIN fresh |->
                  IF Kept(f) THEN businessData[f] ELSE fresh[f]]
        save == SaveToStorage(bd, financialRecords, kpiData, storage, failAt)
    IN  /\ failAt \in FailPoints(bd)
        /\ businessData' = bd
        /\ storage' = save.storage
        /\ lastOp' = Call("setBusinessData", data, businessData, failAt, save)
        /\ UNCHANGED <<financialRecords, kpiData, now>>
        /\ UNCHANGED page

SetBusinessData(data, tail, failAt) ==
    LET bd == NewBusinessData(data, now, tail)
        save == SaveToStorage(bd, financialRecords, kpiData, storage, failAt)
    IN  /\ failAt \in FailPoints(bd)
        /\ businessData' = bd
        /\ storage' = save.storage
        /\ lastOp' = Call("setBusinessData", data, businessData, failAt, save)
        /\ UNCHANGED <<financialRecords, kpiData, now>>
        /\ UNCHANGED page

-----------------------------------------------------------------------------
(* Financial records *)

NewRecord(record, t) ==
    [date |-> OrStr(record, "date", ISODate(t)),
     revenue |-> record.revenue,
     expenses |-> record.expenses,
     profit |-> record.profit,
     cashFlow |-> record.cashFlow]

AddRecord(fr, newRecord) ==
    LET OtherDate(r) == r.date # newRecord.date
    IN  SortByDate(Append(SelectSeq(fr, OtherDate), newRecord))

\* addFinancialRecord that also adds the revenue of the record to the
\* revenue of the Profile
AddFinancialRecordIntoProfile(record, failAt) ==
    LET fr == AddRecord(financialRecords, NewRecord(record, now))
        bd == IF businessData = Null THEN Null
              ELSE [businessData EXCEPT !.revenue = @ + record.revenue]
        save == SaveToStorage(bd, fr, kpiData, storage, failAt)
    IN  /\ failAt \in FailPoints(bd)
        /\ financialRecords' = fr
        /\ businessData' = bd
        /\ storage' = save.storage
        /\ lastOp' = Call("addFinancialRecord", record, financialRecords,
                          failAt, save)
        /\ UNCHANGED <<kpiData, now>>
        /\ UNCHANGED page

AddFinancialRecord(record, failAt) ==
    LET fr == AddRecord(financialRecords, NewRecord(record, now))
        save == SaveToStorage(businessData, fr, kpiData, storage, failAt)
    IN  /\ failAt \in FailPoints(businessData)
        /\ financialRecords' = fr
        /\ storage' = save.storage
        /\ lastOp' = Call("addFinancialRecord", record, financialRecords,
                          failAt, save)
        /\ UNCHANGED <<businessData, kpiData, now>>
        /\ UNCHANGED page

UpdateRecord(fr, date, updates) ==
    LET index == IndexOfDate(fr, date)
    IN  IF index # 0 THEN [fr EXCEPT ![index] = Merge(fr[index], updates)]
        ELSE fr

\* saveToStorage runs only when a record was found
UpdateFinancialRecord(date, updates, failAt) ==
    LET found == IndexOfDate(financialRecords, date) # 0
        fr == UpdateRecord(financialRecords, date, updates)
        save == IF found
                THEN SaveToStorage(businessData, fr, kpiData, storage, failAt)
                ELSE NoSave
    IN  /\ failAt \in (IF found THEN FailPoints(businessData) ELSE {0})
        /\ financialRecords' = fr
        /\ storage' = save.storage
        /\ lastOp' = Call("updateFinancialRecord",
                          [date |-> date, updates |-> updates],
                          financialRecords, failAt, save)
        /\ UNCHANGED <<businessData, kpiData, now>>
        /\ UNCHANGED page

\* the deletion written as splice(findIndex(...), 1): a date that no record
\* has gives index -1, and splice(-1, 1) removes the last record
DeleteRecordBySplice(fr, date) ==
    LET i == IF IndexOfDate(fr, date) = 0 THEN Len(fr)
             ELSE IndexOfDate(fr, date)
    IN  [k \in 1..(IF Len(fr) = 0 THEN 0 ELSE Len(fr) - 1) |->
            IF k < i THEN fr[k] ELSE fr[k + 1]]

DeleteRecord(fr, date) ==
    LET OtherDate(r) == r.date # date
    IN  SelectSeq(fr, OtherDate)

DeleteFinancialRecord(date, failAt) ==
    LET fr == DeleteRecord(financialRecords, date)
        save == SaveToStorage(businessData, fr, kpiData, storage, failAt)
    IN  /\ failAt \in FailPoints(businessData)
        /\ financialRecords' = fr
        /\ storage' = save.storage
        /\ lastOp' = Call("deleteFinancialRecord", date, financialRecords,
                          failAt, save)
        /\ UNCHANGED <<businessData, kpiData, now>>
        /\ UNCHANGED page

-----------------------------------------------------------------------------
(* Key performance indicators *)

SetKPIData(kpis, failAt) ==
    LET save == SaveToStorage(businessData, financialRecords, kpis, storage,
                              failAt)
    IN  /\ failAt \in FailPoints(businessData)
        /\ kpiData' = kpis
        /\ storage' = save.storage
        /\ lastOp' = Call("setKPIData", kpis, kpiData, failAt, save)
        /\ UNCHANGED <<businessData, financialRecords, now>>
        /\ UNCHANGED page

\* addKPI without the filter of line 116: the indicator is only appended
AddKpiToKeepingOld(kpis, kpi) == Append(kpis, kpi)

AddKpiTo(kpis, kpi) ==
    LET OtherMetric(k) == k.metric # kpi.metric
    IN  Append(SelectSeq(kpis, OtherMetric), kpi)

AddKPI(kpi, failAt) ==
    LET kpis == AddKpiTo(kpiData, kpi)
        save == SaveToStorage(businessData, financialRecords, kpis, storage,
                              failAt)
    IN  /\ failAt \in FailPoints(businessData)
        /\ kpiData' = kpis
        /\ storage' = save.storage
        /\ lastOp' = Call("addKPI", kpi, kpiData, failAt, save)
        /\ UNCHANGED <<businessData, financialRecords, now>>
        /\ UNCHANGED page

UpdateKpiIn(kpis, metric, updates) ==
    LET index == IndexOfMetric(kpis, metric)
    IN  IF index # 0 THEN [kpis EXCEPT ![index] = Merge(kpis[index], updates)]
        ELSE kpis

\* saveToStorage runs only when an indicator was found
UpdateKPI(metric, updates, failAt) ==
    LET found == IndexOfMetric(kpiData, metric) # 0
        kpis == UpdateKpiIn(kpiData, metric, updates)
        save == IF found
                THEN SaveToStorage(businessData, financialRecords, kpis,
                                   storage, failAt)
                ELSE NoSave
    IN  /\ failAt \in (IF found THEN FailPoints(businessData) ELSE {0})
        /\ kpiData' = kpis
        /\ storage' = save.storage
        /\ lastOp' = Call("updateKPI", [metric |-> metric, updates |-> updates],
                          kpiData, failAt, save)
        /\ UNCHANGED <<businessData, financialRecords, now>>
        /\ UNCHANGED page

DeleteKpiFrom(kpis, metric) ==
    LET OtherMetric(k) == k.metric # metric
    IN  SelectSeq(kpis, OtherMetric)

DeleteKPI(metric, failAt) ==
    LET kpis == DeleteKpiFrom(kpiData, metric)
        save == SaveToStorage(businessData, financialRecords, kpis, storage,
                              failAt)
    IN  /\ failAt \in FailPoints(businessData)
        /\ kpiData' = kpis
        /\ storage' = save.storage
        /\ lastOp' = Call("deleteKPI", metric, kpiData, failAt, save)
        /\ UNCHANGED <<businessData, financialRecords, now>>
        /\ UNCHANGED page

-----------------------------------------------------------------------------
(* Clear all data *)

\* clearAllData without line 340: the indicators stay
ClearAllDataKeepingKpis(failAt) ==
    LET save == SaveToStorage(Null, <<>>, kpiData, storage, failAt)
    IN  /\ failAt \in FailPoints(Null)
        /\ businessData' = Null
        /\ financialRecords' = <<>>
        /\ storage' = save.storage
        /\ lastOp' = Call("clearAllData", <<>>,
                          [businessData |-> businessData,
                           financialRecords |-> financialRecords,
                           kpiData |-> kpiData],
                          failAt, save)
        /\ UNCHANGED <<kpiData, now>>
        /\ UNCHANGED page

ClearAllData(failAt) ==
    LET save == SaveToStorage(Null, <<>>, <<>>, storage, failAt)
    IN  /\ failAt \in FailPoints(Null)
        /\ businessData' = Null
        /\ financialRecords' = <<>>
        /\ kpiData' = <<>>
        /\ storage' = save.storage
        /\ lastOp' = Call("clearAllData", <<>>,
                          [businessData |-> businessData,
                           financialRecords |-> financialRecords,
                           kpiData |-> kpiData],
                          failAt, save)
        /\ UNCHANGED now
        /\ UNCHANGED page

-----------------------------------------------------------------------------
(* Spec: the whole store over an unreliable durable medium.  Every           *)
(* operation of the store is called, any setItem may throw, over a small    *)
(* set of arguments, all within one day.                                    *)

SmallProfileInputs ==
    { <<>>, [id |-> "biz-1", createdAt |-> DateObj(0), companyName |-> "Acme"] }

SmallRecordInputs ==
    { [date |-> ISODate(0), revenue |-> 100, expenses |-> 60, profit |-> 40,
       cashFlow |-> 30] }

SmallRecordUpdates == { [revenue |-> 200, profit |-> 140] }

SmallKpiInputs ==
    { [metric |-> "Churn", value |-> 5, target |-> 3, unit |-> "%",
       category |-> "customer"] }

SmallKpiLists == {<<>>} \cup {<<k>> : k \in SmallKpiInputs}

SmallKpiUpdates == { [value |-> 4] }

Next ==
    \/ Construct
    \/ \E data \in SmallProfileInputs, tail \in RandomTails, failAt \in 0..3 :
          SetBusinessData(data, tail, failAt)
    \/ \E record \in SmallRecordInputs, failAt \in 0..3 :
          AddFinancialRecord(record, failAt)
    \/ \E updates \in SmallRecordUpdates, failAt \in 0..3 :
          UpdateFinancialRecord(ISODate(0), updates, failAt)
    \/ \E failAt \in 0..3 : DeleteFinancialRecord(ISODate(0), failAt)
    \/ \E kpis \in SmallKpiLists, failAt \in 0..3 : SetKPIData(kpis, failAt)
    \/ \E kpi \in SmallKpiInputs, failAt \in 0..3 : AddKPI(kpi, failAt)
    \/ \E updates \in SmallKpiUpdates, failAt \in 0..3 :
          UpdateKPI("Churn", updates, failAt)
    \/ \E failAt \in 0..3 : DeleteKPI("Churn", failAt)
    \/ \E failAt \in 0..3 : ClearAllData(failAt)

Spec == Init /\ [][Next]_vars

-----------------------------------------------------------------------------
(* SpecProfile: the Profile in depth, over a durable medium that accepts    *)
(* every write, while time passes.                                          *)

NextProfile ==
    \/ Tick
    \/ Construct
    \/ \E data \in ProfileInputs, tail \in RandomTails :
          SetBusinessData(data, tail, 0)
    \/ ClearAllData(0)

SpecProfile == Init /\ [][NextProfile]_vars

-----------------------------------------------------------------------------
(* SpecRecords: the records collection in depth *)

NextRecords ==
    \/ Tick
    \/ Construct
    \/ \E record \in RecordInputs :
          AddFinancialRecord(record, 0) /\ Len(financialRecords') <= MaxRecords
    \/ \E date \in InputDates, updates \in RecordUpdates :
          UpdateFinancialRecord(date, updates, 0)
    \/ \E date \in InputDates : DeleteFinancialRecord(date, 0)
    \/ ClearAllData(0)

SpecRecords == Init /\ [][NextRecords]_vars

-----------------------------------------------------------------------------
(* SpecKpis: the indicator collection in depth *)

NextKpis ==
    \/ Construct
    \/ \E kpis \in KpiLists : Len(kpis) <= MaxKpis /\ SetKPIData(kpis, 0)
    \/ \E kpi \in KpiInputs : AddKPI(kpi, 0) /\ Len(kpiData') <= MaxKpis
    \/ \E metric \in Metrics, updates \in KpiUpdates :
          UpdateKPI(metric, updates, 0)
    \/ \E metric \in Metrics : DeleteKPI(metric, 0)
    \/ ClearAllData(0)

SpecKpis == Init /\ [][NextKpis]_vars

-----------------------------------------------------------------------------
(* SpecLoad: store initialisation over every content of the three keys.     *)
(* The initial states are a new DataManager after its field initialisers    *)
(* and before the constructor body; Construct runs the constructor.         *)

StoredBusiness ==
    {NoItem, Malformed} \cup
    {StringifyBusiness(NewBusinessData(data, 0, tail)) :
        data \in SmallProfileInputs, tail \in RandomTails}

StoredRecords ==
    {NoItem, Malformed, StringifyList(<<>>)} \cup
    {StringifyList(<<r>>) : r \in SmallRecordInputs}

StoredKpis ==
    {NoItem, Malformed, StringifyList(<<>>)} \cup
    {StringifyList(<<k>>) : k \in SmallKpiInputs}

StoredStates ==
    { [key \in StorageKeys |->
          IF key = BUSINESS_DATA_KEY THEN b
          ELSE IF key = FINANCIAL_RECORDS_KEY THEN f ELSE k] :
      b \in StoredBusiness, f \in StoredRecords, k \in StoredKpis }

InitLoad ==
    /\ storage \in StoredStates
    /\ businessData = Null
    /\ financialRecords = <<>>
    /\ kpiData = <<>>
    /\ now = 0
    /\ lastOp = [op |-> "new", arg |-> <<>>, pre |-> <<>>, at |-> 0,
                 failAt |-> 0, outcome |-> "returned"]
    /\ inflight = <<>>
    /\ isUploading = FALSE
    /\ message = Null
    /\ fileInput = ""
    /\ saved = Null

NextLoad == lastOp.op = "new" /\ Construct

SpecLoad == InitLoad /\ [][NextLoad]_vars

-----------------------------------------------------------------------------
(* Properties of the records collection (SpecRecords) *)

\* C1: in every reachable state the records collection holds at most one
\* record per date value.
C1_OneRecordPerDate ==
    \A i, j \in 1..Len(financialRecords) :
        financialRecords[i].date = financialRecords[j].date => i = j

\* C2: in every reachable state, so after any mutation, the records that
\* getFinancialRecords returns are in ascending date order.
C2_RecordsAscendingByDate ==
    \A i \in 1..(Len(financialRecords) - 1) :
        GetTime(financialRecords[i].date) <= GetTime(financialRecords[i + 1].date)

\* C10: addFinancialRecord with the date of an existing record leaves the
\* length of the collection unchanged, leaves exactly the new record under
\* that date, leaves the records of every other date as they were, and
\* leaves the collection sorted ascending by date.
C10_AddReplacesSameDate ==
    LET new == NewRecord(lastOp.arg, lastOp.at)
        old == lastOp.pre
    IN  (/\ lastOp.op = "addFinancialRecord"
         /\ \E i \in 1..Len(old) : old[i].date = new.date)
        => /\ Len(financialRecords) = Len(old)
           /\ \A i \in 1..Len(financialRecords) :
                 financialRecords[i].date = new.date => financialRecords[i] = new
           /\ \E i \in 1..Len(financialRecords) : financialRecords[i] = new
           /\ \A r \in {old[i] : i \in 1..Len(old)} :
                 r.date # new.date =>
                    \E i \in 1..Len(financialRecords) : financialRecords[i] = r
           /\ \A i \in 1..Len(financialRecords) :
                 financialRecords[i].date # new.date =>
                    \E j \in 1..Len(old) : old[j] = financialRecords[i]
           /\ \A i \in 1..(Len(financialRecords) - 1) :
                 GetTime(financialRecords[i].date)
                    <= GetTime(financialRecords[i + 1].date)

-----------------------------------------------------------------------------
(* Properties of the indicator collection (SpecKpis) *)

\* C3: in every reachable state the indicator collection holds at most one
\* indicator per metric name.
C3_OneIndicatorPerMetric ==
    \A i, j \in 1..Len(kpiData) :
        kpiData[i].metric = kpiData[j].metric => i = j

-----------------------------------------------------------------------------
(* Properties of the Profile (SpecProfile) *)

\* C4: a setBusinessData call that finds a Profile and whose argument omits
\* id and createdAt leaves the Profile's id and createdAt as they were, and
\* sets updatedAt to the time of the call.
C4_IdentityAndCreatedAtKept ==
    (/\ lastOp.op = "setBusinessData"
     /\ lastOp.pre # Null
     /\ "id" \notin DOMAIN lastOp.arg
     /\ "createdAt" \notin DOMAIN lastOp.arg)
    => /\ businessData.id = lastOp.pre.id
       /\ businessData.createdAt = lastOp.pre.createdAt
       /\ businessData.updatedAt = DateObj(lastOp.at)

\* C5, as claimed: after setBusinessData the Profile holds the id and the
\* createdAt the caller supplied, whenever they are supplied; when they are
\* omitted the id is freshly generated and createdAt is the time of the
\* call, whether or not a Profile existed.
C5_SuppliedKeptElseFresh ==
    lastOp.op = "setBusinessData" =>
        /\ IF "id" \in DOMAIN lastOp.arg
           THEN businessData.id = lastOp.arg.id
           ELSE \E tail \in RandomTails :
                   businessData.id = GenerateId(lastOp.at, tail)
        /\ IF "createdAt" \in DOMAIN lastOp.arg
           THEN businessData.createdAt = lastOp.arg.createdAt
           ELSE businessData.createdAt = DateObj(lastOp.at)

\* C5, amended: after setBusinessData the Profile holds the id the caller
\* supplied when that id is a non-empty string, and the createdAt the caller
\* supplied; an id that is omitted or empty is freshly generated and an
\* omitted createdAt is the time of the call, whether or not a Profile
\* existed.
C5_NonEmptySuppliedKeptElseFresh ==
    lastOp.op = "setBusinessData" =>
        /\ IF "id" \in DOMAIN lastOp.arg /\ lastOp.arg.id # ""
           THEN businessData.id = lastOp.arg.id
           ELSE \E tail \in RandomTails :
                   businessData.id = GenerateId(lastOp.at, tail)
        /\ IF "createdAt" \in DOMAIN lastOp.arg
           THEN businessData.createdAt = lastOp.arg.createdAt
           ELSE businessData.createdAt = DateObj(lastOp.at)

\* a Profile existed, the call omitted id and createdAt, and the Profile now
\* has another id and a later createdAt
C5_Witness_FreshOverExisting ==
    /\ lastOp.op = "setBusinessData"
    /\ lastOp.pre # Null
    /\ DOMAIN lastOp.arg \cap {"id", "createdAt"} = {}
    /\ businessData.id # lastOp.pre.id
    /\ businessData.createdAt # lastOp.pre.createdAt

-----------------------------------------------------------------------------
(* Properties of the durable medium (Spec, SpecLoad) *)

\* C6: after a clearAllData whose writes all succeeded, a store newly
\* initialised from the durable medium has no Profile, no records and no
\* indicators.
C6_ClearPersistsEmptyState ==
    (lastOp.op = "clearAllData" /\ lastOp.failAt = 0)
    => LoadFromStorage(Null, <<>>, <<>>, storage) =
          [businessData |-> Null, financialRecords |-> <<>>, kpiData |-> <<>>]

\* C7: after a mutating operation whose writes all succeeded, each of the
\* three keys holds the snapshot of the in-memory entity of its kind (no
\* Profile in memory: no Profile under the key).  An update that finds
\* nothing to update is no mutation.
C7_DurableAgreesWithMemory ==
    LET mutated ==
            /\ lastOp.op \notin {"constructor", "new"}
            /\ lastOp.op = "updateFinancialRecord" =>
                  \E i \in 1..Len(lastOp.pre) :
                      lastOp.pre[i].date = lastOp.arg.date
            /\ lastOp.op = "updateKPI" =>
                  \E i \in 1..Len(lastOp.pre) :
                      lastOp.pre[i].metric = lastOp.arg.metric
    IN  (mutated /\ lastOp.failAt = 0)
        => /\ storage[BUSINESS_DATA_KEY] =
                 (IF businessData = Null THEN NoItem
                  ELSE StringifyBusiness(businessData))
           /\ storage[FINANCIAL_RECORDS_KEY] = StringifyList(financialRecords)
           /\ storage[KPI_DATA_KEY] = StringifyList(kpiData)

\* C8: after initialisation each entity kind holds what its own key yields
\* (its parsed value, or the empty default when the key is absent or its
\* value does not parse), whichever keys are malformed.
C8_ParseFailureConfinedToItsKey ==
    LET LoadedAlone(item, default) ==
            IF HasItem(item) /\ ~ParseThrows(item) THEN JSONParse(item)
            ELSE default
    IN  lastOp.op = "constructor"
        => /\ businessData = LoadedAlone(storage[BUSINESS_DATA_KEY], Null)
           /\ financialRecords =
                 LoadedAlone(storage[FINANCIAL_RECORDS_KEY], <<>>)
           /\ kpiData = LoadedAlone(storage[KPI_DATA_KEY], <<>>)

\* C9: when a setItem throws during a mutating operation the call returns
\* normally and a read right after it observes the mutation in memory.
C9_WriteFailureNotSurfaced ==
    LET Holds(entity, updates) ==
            \A f \in DOMAIN updates : entity[f] = updates[f]
    IN  lastOp.failAt # 0 =>
        /\ lastOp.outcome = "returned"
        /\ lastOp.op = "setBusinessData" =>
              \E tail \in RandomTails :
                  businessData = NewBusinessData(lastOp.arg, lastOp.at, tail)
        /\ lastOp.op = "addFinancialRecord" =>
              \E i \in 1..Len(financialRecords) :
                  financialRecords[i] = NewRecord(lastOp.arg, lastOp.at)
        /\ lastOp.op = "updateFinancialRecord" =>
              \E i \in 1..Len(financialRecords) :
                  Holds(financialRecords[i], lastOp.arg.updates)
        /\ lastOp.op = "deleteFinancialRecord" =>
              \A i \in 1..Len(financialRecords) :
                  financialRecords[i].date # lastOp.arg
        /\ lastOp.op = "setKPIData" => kpiData = lastOp.arg
        /\ lastOp.op = "addKPI" =>
              \E i \in 1..Len(kpiData) : kpiData[i] = lastOp.arg
        /\ lastOp.op = "updateKPI" =>
              \E i \in 1..Len(kpiData) : Holds(kpiData[i], lastOp.arg.updates)
        /\ lastOp.op = "deleteKPI" =>
              \A i \in 1..Len(kpiData) : kpiData[i].metric # lastOp.arg
        /\ lastOp.op = "clearAllData" =>
              businessData = Null /\ financialRecords = <<>> /\ kpiData = <<>>

\* the write of the records key failed: memory holds a record that the
\* durable medium does not
C9_Witness_RecordInMemoryOnly ==
    /\ lastOp.op = "addFinancialRecord"
    /\ lastOp.failAt = 2
    /\ lastOp.outcome = "returned"
    /\ Len(financialRecords) = 1
    /\ storage[FINANCIAL_RECORDS_KEY] # StringifyList(financialRecords)

-----------------------------------------------------------------------------
(* Text: the String methods that importFromCSV and exportToCSV use.  A      *)
(* JavaScript string is a TLA+ string, read one character at a time.        *)

CharAt(s, i) == SubSeq(s, i, i)

RECURSIVE SplitFrom(_, _, _)
\* the pieces of s from position from on: up to the next separator, and the
\* pieces after it
SplitFrom(s, sep, from) ==
    LET found == {i \in from..Len(s) : CharAt(s, i) = sep}
    IN  IF found = {} THEN <<SubSeq(s, from, Len(s))>>
        ELSE LET next == CHOOSE i \in found : \A j \in found : i <= j
             IN  <<SubSeq(s, from, next - 1)>> \o SplitFrom(s, sep, next + 1)

\* s.split(sep) for a separator of one character
Split(s, sep) == SplitFrom(s, sep, 1)

RECURSIVE Join(_, _)
\* pieces.join(sep)
Join(pieces, sep) ==
    IF pieces = <<>> THEN ""
    ELSE IF Len(pieces) = 1 THEN pieces[1]
    ELSE pieces[1] \o sep \o Join(Tail(pieces), sep)

WhiteSpace == {" ", "\t", "\n", "\r"}

\* s.trim(): from the first to the last character that is no white space
Trim(s) ==
    LET inked == {i \in 1..Len(s) : CharAt(s, i) \notin WhiteSpace}
    IN  IF inked = {} THEN ""
        ELSE SubSeq(s, CHOOSE i \in inked : \A j \in inked : i <= j,
                       CHOOSE i \in inked : \A j \in inked : j <= i)

RECURSIVE RemoveQuotes(_)
\* s.replace(/"/g, '')
RemoveQuotes(s) ==
    IF Len(s) = 0 THEN ""
    ELSE IF CharAt(s, 1) = "\"" THEN RemoveQuotes(SubSeq(s, 2, Len(s)))
    ELSE CharAt(s, 1) \o RemoveQuotes(SubSeq(s, 2, Len(s)))

Digits == <<"0", "1", "2", "3", "4", "5", "6", "7", "8", "9">>

IsDigit(c) == \E d \in 1..10 : Digits[d] = c

DigitValue(c) == (CHOOSE d \in 1..10 : Digits[d] = c) - 1

RECURSIVE DigitsValue(_, _)
DigitsValue(s, acc) ==
    IF Len(s) = 0 THEN acc
    ELSE DigitsValue(SubSeq(s, 2, Len(s)), 10 * acc + DigitValue(CharAt(s, 1)))

AllDigits(s) == Len(s) > 0 /\ \A i \in 1..Len(s) : IsDigit(CharAt(s, i))

\* Number(t) is a number and not NaN: t is blank or a whole number with an
\* optional sign (numbers are whole in this model, so no text with a decimal
\* point or an exponent is among the inputs)
IsNumeric(s) ==
    LET t == Trim(s)
    IN  \/ t = ""
        \/ AllDigits(t)
        \/ CharAt(t, 1) \in {"-", "+"} /\ AllDigits(SubSeq(t, 2, Len(t)))

\* Number(s) for a string with IsNumeric(s)
ToNumber(s) ==
    LET t == Trim(s)
    IN  IF t = "" THEN 0
        ELSE IF AllDigits(t) THEN DigitsValue(t, 0)
        ELSE IF CharAt(t, 1) = "-"
             THEN 0 - DigitsValue(SubSeq(t, 2, Len(t)), 0)
             ELSE DigitsValue(SubSeq(t, 2, Len(t)), 0)

\* Reading a property gives <<>> for undefined and <<v>> for the string v.
Undefined == <<>>

\* a || b for a and b each a string or undefined
OrElse(a, b) == IF a = Undefined \/ a = <<"">> THEN b ELSE a

\* Number(v) || 0: undefined and text that is no number give NaN, hence 0
NumberOrZero(v) ==
    IF v # Undefined /\ IsNumeric(v[1]) THEN ToNumber(v[1]) ELSE 0

\* `${n}` for a whole number n
NumberToString(n) == ToString(n)

-----------------------------------------------------------------------------
(* CSV text of financial records: exportToCSV writes it, importFromCSV      *)
(* reads it                                                                 *)

\* lines.filter(line => line.trim()) of text.split('\n')
CsvLines(text) ==
    LET NonBlank(line) == Trim(line) # ""
    IN  SelectSeq(Split(text, "\n"), NonBlank)

\* line.split(',').map(v => v.trim().replace(/"/g, ''))
CsvCells(line) ==
    LET parts == Split(line, ",")
    IN  [i \in 1..Len(parts) |-> RemoveQuotes(Trim(parts[i]))]

\* record[key] after headers.forEach((header, index) => record[header] =
\* values[index]): the value under the last header equal to key
Property(headers, values, key) ==
    LET at == {i \in 1..Len(headers) : headers[i] = key}
    IN  IF at = {} THEN Undefined
        ELSE <<values[CHOOSE i \in at : \A j \in at : j <= i]>>

\* record.date || record.Date
CsvRowDate(headers, values) ==
    OrElse(Property(headers, values, "date"),
           Property(headers, values, "Date"))

\* the two tests a data row passes to become a record
CsvRowAccepted(headers, values) ==
    /\ Len(values) >= Len(headers)
    /\ CsvRowDate(headers, values) \notin {Undefined, <<"">>}

CsvRowRecord(headers, values) ==
    LET P(key) == Property(headers, values, key)
    IN  [date |-> CsvRowDate(headers, values)[1],
         revenue |-> NumberOrZero(OrElse(P("revenue"), P("Revenue"))),
         expenses |-> NumberOrZero(OrElse(P("expenses"), P("Expenses"))),
         profit |-> NumberOrZero(OrElse(P("profit"), P("Profit"))),
         cashFlow |-> NumberOrZero(OrElse(P("cashFlow"), P("Cash Flow")))]

RECURSIVE CsvRecordsFrom(_, _, _)
\* the loop over lines[i], lines[i + 1], ...: the records array it fills
CsvRecordsFrom(lines, headers, i) ==
    IF i > Len(lines) THEN <<>>
    ELSE LET values == CsvCells(lines[i])
         IN  (IF CsvRowAccepted(headers, values)
              THEN <<CsvRowRecord(headers, values)>> ELSE <<>>)
             \o CsvRecordsFrom(lines, headers, i + 1)

\* the records array of a text of at least two non-blank lines
CsvRecords(lines) == CsvRecordsFrom(lines, CsvCells(lines[1]), 2)

CsvHeader == "Date,Revenue,Expenses,Profit,Cash Flow"

CsvLine(record) ==
    record.date \o "," \o NumberToString(record.revenue)
                \o "," \o NumberToString(record.expenses)
                \o "," \o NumberToString(record.profit)
                \o "," \o NumberToString(record.cashFlow)

\* csvContent of exportToCSV
CsvContent(fr) ==
    Join(<<CsvHeader>> \o [i \in 1..Len(fr) |-> CsvLine(fr[i])], "\n")

\* the fileName of exportToCSV at time t
CsvFileName(bd, t) ==
    (IF bd # Null /\ bd.companyName # "" THEN bd.companyName ELSE "Business")
        \o "_Financial_" \o ISODate(t) \o ".csv"

-----------------------------------------------------------------------------
(* The store operations as an import call applies them: m is the store      *)
(* (the three collections and localStorage) the operation finds             *)

StoreNow ==
    [businessData |-> businessData, financialRecords |-> financialRecords,
     kpiData |-> kpiData, storage |-> storage]

\* this.setBusinessData(data)
WithBusinessData(m, data, t, tail, failAt) ==
    LET bd == NewBusinessData(data, t, tail)
    IN  [m EXCEPT !.businessData = bd,
                  !.storage = SaveToStorage(bd, m.financialRecords, m.kpiData,
                                            m.storage, failAt).storage]

\* this.addFinancialRecord(record)
WithRecord(m, record, t, failAt) ==
    LET fr == AddRecord(m.financialRecords, NewRecord(record, t))
    IN  [m EXCEPT !.financialRecords = fr,
                  !.storage = SaveToStorage(m.businessData, fr, m.kpiData,
                                            m.storage, failAt).storage]

\* the forEach of importFromCSV replaced by an assignment of the parsed
\* records to the collection
WithRecordsOnly(m, records, t, failAt) ==
    IF records = <<>> THEN m
    ELSE [m EXCEPT !.financialRecords = records,
                   !.storage = SaveToStorage(m.businessData, records,
                                             m.kpiData, m.storage,
                                             failAt).storage]

RECURSIVE WithRecords(_, _, _, _)
\* records.forEach(record => this.addFinancialRecord(record))
WithRecords(m, records, t, failAt) ==
    IF records = <<>> THEN m
    ELSE WithRecords(WithRecord(m, Head(records), t, failAt), Tail(records),
                     t, failAt)

\* this.setKPIData(kpis)
WithKpis(m, kpis, failAt) ==
    [m EXCEPT !.kpiData = kpis,
              !.storage = SaveToStorage(m.businessData, m.financialRecords,
                                        kpis, m.storage, failAt).storage]

-----------------------------------------------------------------------------
(* importFromCSV after its await: read is how the file read ended ("load"   *)
(* resolves the promise of readFileAsText with the text, "error" rejects it *)
(* with the event, which is no Error)                                       *)

Failure(text) == [success |-> FALSE, message |-> text]
Success(text) == [success |-> TRUE, message |-> text]

\* return result, inside the try block or inside the catch block: the
\* promise of the async method resolves with result; m is the store then
Resolves(m, result) ==
    [store |-> m, settled |-> "resolved", result |-> result]

\* error instanceof Error ? error.message : 'Unknown error', for what was
\* thrown: <<>> for the event of a failed read, <<text>> for Error(text)
ErrorMessage(error) == IF error = <<>> THEN "Unknown error" ELSE error[1]

\* importFromCSV with the test of line 218 weakened to lines.length < 1
CsvImportOfHeaderAlone(m, file, read, t, failAt) ==
    IF read = "error"
    THEN Resolves(m, Failure("CSV import failed: " \o ErrorMessage(<<>>)))
    ELSE LET lines == CsvLines(file.text)
         IN  IF Len(lines) < 1
             THEN Resolves(m, Failure("CSV file must have at least a header and one data row"))
             ELSE LET records == CsvRecords(lines)
                  IN  Resolves(WithRecords(m, records, t, failAt),
                               Success("Successfully imported "
                                          \o ToString(Len(records))
                                          \o " financial records"))

\* importFromCSV reporting the number of data rows, lines.length - 1, in
\* place of records.length
CsvImportCountingRows(m, file, read, t, failAt) ==
    IF read = "error"
    THEN Resolves(m, Failure("CSV import failed: " \o ErrorMessage(<<>>)))
    ELSE LET lines == CsvLines(file.text)
         IN  IF Len(lines) < 2
             THEN Resolves(m, Failure("CSV file must have at least a header and one data row"))
             ELSE LET records == CsvRecords(lines)
                  IN  Resolves(WithRecords(m, records, t, failAt),
                               Success("Successfully imported "
                                          \o ToString(Len(lines) - 1)
                                          \o " financial records"))

\* importFromCSV applying each row as it is parsed and throwing at the first
\* data row that has fewer fields than the header row
CsvImportApplyingAsParsed(m, file, read, t, failAt) ==
    IF read = "error"
    THEN Resolves(m, Failure("CSV import failed: " \o ErrorMessage(<<>>)))
    ELSE LET lines == CsvLines(file.text)
             Short(i) == Len(CsvCells(lines[i])) < Len(CsvCells(lines[1]))
         IN  IF Len(lines) < 2
             THEN Resolves(m, Failure("CSV file must have at least a header and one data row"))
             ELSE IF \E i \in 2..Len(lines) : Short(i)
             THEN LET k == CHOOSE i \in 2..Len(lines) :
                              Short(i) /\ \A j \in 2..(i - 1) : ~Short(j)
                      records == CsvRecords(SubSeq(lines, 1, k - 1))
                  IN  Resolves(WithRecords(m, records, t, failAt),
                               Failure("CSV import failed: "
                                          \o ErrorMessage(<<"Malformed row">>)))
             ELSE LET records == CsvRecords(lines)
                  IN  Resolves(WithRecords(m, records, t, failAt),
                               Success("Successfully imported "
                                          \o ToString(Len(records))
                                          \o " financial records"))

CsvImport(m, file, read, t, failAt) ==
    IF read = "error"
    THEN Resolves(m, Failure("CSV import failed: " \o ErrorMessage(<<>>)))
    ELSE LET lines == CsvLines(file.text)
         IN  IF Len(lines) < 2
             THEN Resolves(m, Failure("CSV file must have at least a header and one data row"))
             ELSE LET records == CsvRecords(lines)
                  IN  Resolves(WithRecords(m, records, t, failAt),
                               Success("Successfully imported "
                                          \o ToString(Len(records))
                                          \o " financial records"))

-----------------------------------------------------------------------------
(* importFromExcel after its await.  XLSX is a library outside the          *)
(* repository: a file carries what XLSX.read makes of its bytes, either     *)
(* [error |-> text] (XLSX.read throws) or [Sheets |-> name :> sheet]; a     *)
(* sheet is [rows |-> what sheet_to_json returns] or [error |-> text]       *)
(* (sheet_to_json throws).  A row is a function from column headers to      *)
(* cells; the cells of a numeric column are numbers, those of any other     *)
(* column strings.                                                          *)

\* workbook.Sheets[a] || workbook.Sheets[b], <<>> for undefined
SheetOf(workbook, a, b) ==
    IF a \in DOMAIN workbook.Sheets THEN <<workbook.Sheets[a]>>
    ELSE IF b \in DOMAIN workbook.Sheets THEN <<workbook.Sheets[b]>>
    ELSE <<>>

\* Number(row[a] || row[b]) || 0
NumCell(row, a, b) == OrNum(row, a, OrNum(row, b, 0))

\* row[a] || row[b] || dflt
StrCell(row, a, b, dflt) == OrStr(row, a, OrStr(row, b, dflt))

\* the argument of setBusinessData; an undefined companyName or industry is
\* read by setBusinessData as ''
BusinessRowData(row) ==
    [companyName |-> StrCell(row, "Company Name", "companyName", ""),
     industry |-> StrCell(row, "Industry", "industry", ""),
     employees |-> NumCell(row, "Employees", "employees"),
     revenue |-> NumCell(row, "Revenue", "revenue"),
     costs |-> NumCell(row, "Costs", "costs"),
     assets |-> NumCell(row, "Assets", "assets"),
     liabilities |-> NumCell(row, "Liabilities", "liabilities"),
     cashFlow |-> NumCell(row, "Cash Flow", "cashFlow")]

\* record.Date || record.date, '' when falsy
FinancialRowDate(row) == StrCell(row, "Date", "date", "")

FinancialRowRecord(row) ==
    [date |-> FinancialRowDate(row),
     revenue |-> NumCell(row, "Revenue", "revenue"),
     expenses |-> NumCell(row, "Expenses", "expenses"),
     profit |-> NumCell(row, "Profit", "profit"),
     cashFlow |-> NumCell(row, "Cash Flow", "cashFlow")]

\* the rows the forEach of importFromExcel passes to addFinancialRecord
FinancialRowRecords(rows) ==
    LET Dated(row) == FinancialRowDate(row) # ""
        dated == SelectSeq(rows, Dated)
    IN  [i \in 1..Len(dated) |-> FinancialRowRecord(dated[i])]

KpiRow(row) ==
    [metric |-> StrCell(row, "Metric", "metric", ""),
     value |-> NumCell(row, "Value", "value"),
     target |-> NumCell(row, "Target", "target"),
     unit |-> StrCell(row, "Unit", "unit", ""),
     category |-> StrCell(row, "Category", "category", "operational")]

\* kpis.map(...) without the filter of line 192
KpiRowsUnfiltered(rows) == [i \in 1..Len(rows) |-> KpiRow(rows[i])]

\* kpis.map(...).filter(kpi => kpi.metric)
KpiRows(rows) ==
    LET Named(kpi) == kpi.metric # ""
    IN  SelectSeq([i \in 1..Len(rows) |-> KpiRow(rows[i])], Named)

\* The three blocks of importFromExcel.  Each takes the store and the count
\* the block before it left and gives the store and the count it leaves;
\* threw holds the message of the exception that ended the call, if any.
Imported(m, imported) == [store |-> m, imported |-> imported, threw |-> <<>>]

Thrown(m, imported, text) ==
    [store |-> m, imported |-> imported, threw |-> <<text>>]

ImportBusinessSheet(m, workbook, t, tail, failAt) ==
    LET sheet == SheetOf(workbook, "Business Data", "Company")
    IN  IF sheet = <<>> THEN Imported(m, 0)
        ELSE IF "error" \in DOMAIN sheet[1] THEN Thrown(m, 0, sheet[1].error)
        ELSE IF sheet[1].rows = <<>> THEN Imported(m, 0)
        ELSE Imported(WithBusinessData(m, BusinessRowData(sheet[1].rows[1]),
                                       t, tail, failAt), 1)

\* the records block counting every row of the sheet, dated or not
ImportFinancialSheetCountingRows(m, imported, workbook, t, failAt) ==
    LET sheet == SheetOf(workbook, "Financial Records", "Financials")
    IN  IF sheet = <<>> THEN Imported(m, imported)
        ELSE IF "error" \in DOMAIN sheet[1]
             THEN Thrown(m, imported, sheet[1].error)
        ELSE LET records == FinancialRowRecords(sheet[1].rows)
             IN  Imported(WithRecords(m, records, t, failAt),
                          imported + Len(sheet[1].rows))

ImportFinancialSheet(m, imported, workbook, t, failAt) ==
    LET sheet == SheetOf(workbook, "Financial Records", "Financials")
    IN  IF sheet = <<>> THEN Imported(m, imported)
        ELSE IF "error" \in DOMAIN sheet[1]
             THEN Thrown(m, imported, sheet[1].error)
        ELSE LET records == FinancialRowRecords(sheet[1].rows)
             IN  Imported(WithRecords(m, records, t, failAt),
                          imported + Len(records))

\* the indicators block adding each indicator with addKPI in place of the
\* one call of setKPIData: indicators of other metrics stay
ImportKpiSheetAddingEach(m, imported, workbook, failAt) ==
    LET sheet == SheetOf(workbook, "KPIs", "Metrics")
    IN  IF sheet = <<>> THEN Imported(m, imported)
        ELSE IF "error" \in DOMAIN sheet[1]
             THEN Thrown(m, imported, sheet[1].error)
        ELSE LET kpis == KpiRows(sheet[1].rows)
                 Other(k) == \A i \in 1..Len(kpis) : kpis[i].metric # k.metric
             IN  IF Len(kpis) > 0
                 THEN Imported(WithKpis(m, SelectSeq(m.kpiData, Other)
                                              \o kpis, failAt),
                               imported + Len(kpis))
                 ELSE Imported(m, imported)

ImportKpiSheet(m, imported, workbook, failAt) ==
    LET sheet == SheetOf(workbook, "KPIs", "Metrics")
    IN  IF sheet = <<>> THEN Imported(m, imported)
        ELSE IF "error" \in DOMAIN sheet[1]
             THEN Thrown(m, imported, sheet[1].error)
        ELSE LET kpis == KpiRows(sheet[1].rows)
             IN  IF Len(kpis) > 0
                 THEN Imported(WithKpis(m, kpis, failAt),
                               imported + Len(kpis))
                 ELSE Imported(m, imported)

\* importFromExcel with a catch block that puts the store back as the call
\* found it
ExcelImportRollingBack(m, file, read, t, tail, failAt) ==
    IF read = "error"
    THEN Resolves(m, Failure("Import failed: " \o ErrorMessage(<<>>)))
    ELSE IF "error" \in DOMAIN file.workbook
    THEN Resolves(m, Failure("Import failed: "
                                \o ErrorMessage(<<file.workbook.error>>)))
    ELSE LET b == ImportBusinessSheet(m, file.workbook, t, tail, failAt)
             f == IF b.threw # <<>> THEN b
                  ELSE ImportFinancialSheet(b.store, b.imported,
                                            file.workbook, t, failAt)
             k == IF f.threw # <<>> THEN f
                  ELSE ImportKpiSheet(f.store, f.imported, file.workbook,
                                      failAt)
         IN  IF k.threw # <<>>
             THEN Resolves(m,
                           Failure("Import failed: " \o ErrorMessage(k.threw)))
             ELSE Resolves(k.store,
                           Success("Successfully imported "
                                      \o ToString(k.imported) \o " records"))

ExcelImport(m, file, read, t, tail, failAt) ==
    IF read = "error"
    THEN Resolves(m, Failure("Import failed: " \o ErrorMessage(<<>>)))
    ELSE IF "error" \in DOMAIN file.workbook
    THEN Resolves(m, Failure("Import failed: "
                                \o ErrorMessage(<<file.workbook.error>>)))
    ELSE LET b == ImportBusinessSheet(m, file.workbook, t, tail, failAt)
             f == IF b.threw # <<>> THEN b
                  ELSE ImportFinancialSheet(b.store, b.imported,
                                            file.workbook, t, failAt)
             k == IF f.threw # <<>> THEN f
                  ELSE ImportKpiSheet(f.store, f.imported, file.workbook,
                                      failAt)
         IN  IF k.threw # <<>>
             THEN Resolves(k.store,
                           Failure("Import failed: " \o ErrorMessage(k.threw)))
             ELSE Resolves(k.store,
                           Success("Successfully imported "
                                      \o ToString(k.imported) \o " records"))

-----------------------------------------------------------------------------
(* Import and export calls.  An import call runs to its await and is then   *)
(* suspended until the FileReader fires load or error; what follows the     *)
(* await runs to its end without suspension, and so does the upload handler *)
(* that awaits the import.                                                  *)

MaxInFlight == 2    \* import calls suspended at the same time

\* name.includes(suffix) in place of name.endsWith(suffix)
Includes(name, suffix) ==
    \E i \in 1..(Len(name) - Len(suffix) + 1) :
        SubSeq(name, i, i + Len(suffix) - 1) = suffix

\* name.endsWith(suffix)
EndsWith(name, suffix) ==
    /\ Len(name) >= Len(suffix)
    /\ SubSeq(name, Len(name) - Len(suffix) + 1, Len(name)) = suffix

\* an import call up to its await: the file read is started; found is the
\* store as it is when the call is made
Suspend(op, file, handler) ==
    /\ Len(inflight) < MaxInFlight
    /\ inflight' = Append(inflight, [op |-> op, file |-> file,
                                     handler |-> handler, found |-> StoreNow])

\* dataManager.importFromCSV(file), called outside the upload handler
ImportFromCSV(file) ==
    /\ Suspend("importFromCSV", file, FALSE)
    /\ UNCHANGED <<businessData, financialRecords, kpiData, storage, now,
                   lastOp, isUploading, message, fileInput, saved>>

\* dataManager.importFromExcel(file), called outside the upload handler
ImportFromExcel(file) ==
    /\ Suspend("importFromExcel", file, FALSE)
    /\ UNCHANGED <<businessData, financialRecords, kpiData, storage, now,
                   lastOp, isUploading, message, fileInput, saved>>

\* showMessage(type, text)
ShowMessage(type, text) == message' = [type |-> type, text |-> text]

\* the timer of showMessage: setMessage(null)
MessageExpires ==
    /\ message # Null
    /\ message' = Null
    /\ UNCHANGED <<businessData, financialRecords, kpiData, storage, now,
                   lastOp, inflight, isUploading, fileInput, saved>>

\* handleFileUpload, from the change event of the file input that holds
\* file up to the await, or to the end of its finally block when the name
\* has no known suffix.  pending holds the imports suspended before the call,
\* shown the message the call has shown.
HandleFileUpload(file) ==
    /\ IF EndsWith(file.name, ".csv")
       THEN /\ Suspend("importFromCSV", file, TRUE)
            /\ isUploading' = TRUE
            /\ fileInput' = file.name
            /\ UNCHANGED message
       ELSE IF EndsWith(file.name, ".xlsx") \/ EndsWith(file.name, ".xls")
       THEN /\ Suspend("importFromExcel", file, TRUE)
            /\ isUploading' = TRUE
            /\ fileInput' = file.name
            /\ UNCHANGED message
       ELSE /\ ShowMessage("error", "Please upload a CSV or Excel file")
            /\ isUploading' = FALSE
            /\ fileInput' = ""
            /\ UNCHANGED inflight
    /\ lastOp' = [op |-> "handleFileUpload", arg |-> file, pre |-> StoreNow,
                  at |-> now, failAt |-> 0,
                  outcome |-> IF Len(inflight') > Len(inflight)
                              THEN "suspended" ELSE "returned",
                  pending |-> inflight,
                  shown |-> IF Len(inflight') > Len(inflight)
                            THEN <<>> ELSE <<message'>>]
    /\ UNCHANGED <<businessData, financialRecords, kpiData, storage, now,
                   saved>>

\* the import of call after its await, run on the copy of the store that
\* the call found when it was made
ImportResumedOnFound(call, read, tail, failAt) ==
    IF call.op = "importFromCSV"
    THEN CsvImport(call.found, call.file, read, now, failAt)
    ELSE ExcelImport(call.found, call.file, read, now, tail, failAt)

\* the import of call after its await
ImportResumed(call, read, tail, failAt) ==
    IF call.op = "importFromCSV"
    THEN CsvImport(StoreNow, call.file, read, now, failAt)
    ELSE ExcelImport(StoreNow, call.file, read, now, tail, failAt)

\* ReadEnds with the finally block of handleFileUpload moved into the
\* success branch: after a failure result the flag and the input stay
ReadEndsResetOnSuccess(i, read, tail, failAt) ==
    \E call \in {inflight[i]} :
    \E import \in {ImportResumed(call, read, tail, failAt)} :
        /\ businessData' = import.store.businessData
        /\ financialRecords' = import.store.financialRecords
        /\ kpiData' = import.store.kpiData
        /\ storage' = import.store.storage
        /\ inflight' = SubSeq(inflight, 1, i - 1)
                          \o SubSeq(inflight, i + 1, Len(inflight))
        /\ lastOp' = [op |-> call.op, arg |-> call.file, pre |-> StoreNow,
                      at |-> now, failAt |-> failAt,
                      outcome |-> import.settled, read |-> read,
                      result |-> import.result, found |-> call.found]
        /\ IF call.handler
           THEN /\ ShowMessage(IF import.result.success THEN "success"
                               ELSE "error", import.result.message)
                /\ isUploading' = (isUploading /\ ~import.result.success)
                /\ fileInput' = IF import.result.success THEN ""
                                ELSE fileInput
           ELSE UNCHANGED <<isUploading, message, fileInput>>
        /\ UNCHANGED <<now, saved>>

\* The file read of the i-th suspended import ends: the import runs from its
\* await to its return, and the upload handler, if it made the call, from
\* its await to the end of its finally block.
ReadEnds(i, read, tail, failAt) ==
    \E call \in {inflight[i]} :
    \E import \in {ImportResumed(call, read, tail, failAt)} :
        /\ businessData' = import.store.businessData
        /\ financialRecords' = import.store.financialRecords
        /\ kpiData' = import.store.kpiData
        /\ storage' = import.store.storage
        /\ inflight' = SubSeq(inflight, 1, i - 1)
                          \o SubSeq(inflight, i + 1, Len(inflight))
        /\ lastOp' = [op |-> call.op, arg |-> call.file, pre |-> StoreNow,
                      at |-> now, failAt |-> failAt,
                      outcome |-> import.settled, read |-> read,
                      result |-> import.result, found |-> call.found]
        /\ IF call.handler
           THEN /\ ShowMessage(IF import.result.success THEN "success"
                               ELSE "error", import.result.message)
                /\ isUploading' = FALSE
                /\ fileInput' = ""
           ELSE UNCHANGED <<isUploading, message, fileInput>>
        /\ UNCHANGED <<now, saved>>

\* exportToCSV without the test of line 319: a store without records is
\* exported as a file that holds the header line
ExportToCSVUnguarded ==
    LET file == [fileName |-> CsvFileName(businessData, now),
                 type |-> "text/csv;charset=utf-8;",
                 text |-> CsvContent(financialRecords)]
    IN  /\ lastOp' = [op |-> "exportToCSV", arg |-> <<>>, pre |-> StoreNow,
                      at |-> now, failAt |-> 0, outcome |-> "returned",
                      files |-> <<file>>, alerts |-> <<>>]
        /\ saved' = [file |-> file, records |-> financialRecords]
        /\ UNCHANGED <<businessData, financialRecords, kpiData, storage, now,
                       inflight, isUploading, message, fileInput>>

\* dataManager.exportToCSV(): alerts holds the argument of alert if it was
\* called, files the arguments of saveAs if it was called
ExportToCSV ==
    LET file == [fileName |-> CsvFileName(businessData, now),
                 type |-> "text/csv;charset=utf-8;",
                 text |-> CsvContent(financialRecords)]
        call == [op |-> "exportToCSV", arg |-> <<>>, pre |-> StoreNow,
                 at |-> now, failAt |-> 0, outcome |-> "returned"]
    IN  /\ IF Len(financialRecords) = 0
           THEN /\ lastOp' = call @@ [files |-> <<>>,
                     alerts |-> <<"No financial records to export">>]
                /\ UNCHANGED saved
           ELSE /\ lastOp' = call @@ [files |-> <<file>>, alerts |-> <<>>]
                /\ saved' = [file |-> file, records |-> financialRecords]
        /\ UNCHANGED <<businessData, financialRecords, kpiData, storage, now,
                       inflight, isUploading, message, fileInput>>

-----------------------------------------------------------------------------------------------------------------------------------------------------
(* SpecCsv: importFromCSV, one call at a time, into a store whose records   *)
(* addFinancialRecord has added, updateFinancialRecord has moved to another *)
(* date and clearAllData has removed.                                       *)

CsvStoreRecords ==
    { [date |-> ISODate(0), revenue |-> 1, expenses |-> 2, profit |-> 0 - 1,
       cashFlow |-> 0],
      [date |-> ISODate(2), revenue |-> 3, expenses |-> 3, profit |-> 0,
       cashFlow |-> 12] }

CsvStoreUpdates == {[date |-> ISODate(0)], [date |-> ISODate(3)]}

CsvFiles ==
    { \* the layout exportToCSV writes, rows not in date order
      [name |-> "records.csv",
       text |-> "Date,Revenue,Expenses,Profit,Cash Flow\n2024-01-02,200,150,50,45\n2024-01-01,100,60,40,-30\n"],
      \* lower-case headers, quotes, padding, a blank line, a date given
      \* twice, a row without a date, a row shorter than the header, a row
      \* longer than the header, a number that is none
      [name |-> "repeated.csv",
       text |-> "date,revenue,expenses\r\n\"2024-01-01\", 7 ,1\r\n\r\n2024-01-01,9,x\r\n,5,5\r\n2024-01-04,8\r\n2024-01-02,6,4,extra\r\n"],
      \* two lines, no date column
      [name |-> "other.csv", text |-> "Name,Value\nx,1\n"],
      \* a header and no data row
      [name |-> "header.csv", text |-> "Date,Revenue\n\n"],
      [name |-> "empty.csv", text |-> ""] }

ReadOutcomes == {"load", "error"}

NextCsv ==
    \/ \E record \in CsvStoreRecords :
          AddFinancialRecord(record, 0) /\ Len(financialRecords') <= MaxRecords
    \/ \E updates \in CsvStoreUpdates :
          UpdateFinancialRecord(ISODate(2), updates, 0)
    \/ ClearAllData(0)
    \/ \E file \in CsvFiles : inflight = <<>> /\ ImportFromCSV(file)
    \/ \E read \in ReadOutcomes :
          inflight # <<>> /\ ReadEnds(1, read, "4fzyo82m", 0)

SpecCsv == Init /\ [][NextCsv]_vars

-----------------------------------------------------------------------------
(* SpecRoundTrip: exportToCSV of the records collection and importFromCSV   *)
(* of the file it saved into a store without records.                       *)

\* the File the user picks when uploading the file saveAs wrote
Saved == [name |-> saved.file.fileName, text |-> saved.file.text]

NextRoundTrip ==
    \/ \E record \in CsvStoreRecords :
          AddFinancialRecord(record, 0) /\ Len(financialRecords') <= MaxRecords
    \/ UpdateFinancialRecord(ISODate(2), [date |-> ISODate(0)], 0)
    \/ ClearAllData(0)
    \/ ExportToCSV
    \/ /\ saved # Null /\ inflight = <<>> /\ financialRecords = <<>>
       /\ ImportFromCSV(Saved)
    \/ \E read \in ReadOutcomes :
          inflight # <<>> /\ ReadEnds(1, read, "4fzyo82m", 0)

SpecRoundTrip == Init /\ [][NextRoundTrip]_vars

-----------------------------------------------------------------------------------------------------------------------------------------------------
(* SpecOutcomes: importFromCSV and importFromExcel, one call at a time,     *)
(* over every way the file read and the parse of the file can end.          *)

ExcelFiles ==
    { \* the three sheets under their first names
      [name |-> "book.xlsx",
       workbook |-> [Sheets |->
          ("Business Data" :>
              [rows |-> << ("Company Name" :> "Acme") @@ ("Revenue" :> 1000) >>])
          @@ ("Financial Records" :>
              [rows |-> << ("Date" :> "2024-01-02") @@ ("Revenue" :> 999)
                              @@ ("Expenses" :> 900) @@ ("Profit" :> 99),
                           ("Revenue" :> 5) >>])
          @@ ("KPIs" :>
              [rows |-> << ("Metric" :> "NPS") @@ ("Value" :> 40)
                              @@ ("Target" :> 50) >>])]],
      \* a Profile sheet under its second name, then a sheet that
      \* sheet_to_json throws on
      [name |-> "partial.xls",
       workbook |-> [Sheets |->
          ("Company" :> [rows |-> << [companyName |-> "Bolt"] >>])
          @@ ("Financials" :> [error |-> "Bad range"])]],
      \* bytes that XLSX.read throws on
      [name |-> "locked.xlsx",
       workbook |-> [error |-> "File is password-protected"]] }

NextOutcomes ==
    \/ \E file \in CsvFiles : inflight = <<>> /\ ImportFromCSV(file)
    \/ \E file \in ExcelFiles : inflight = <<>> /\ ImportFromExcel(file)
    \/ \E read \in ReadOutcomes, tail \in RandomTails :
          inflight # <<>> /\ ReadEnds(1, read, tail, 0)

SpecOutcomes == Init /\ [][NextOutcomes]_vars

-----------------------------------------------------------------------------
(* SpecImports: importFromCSV and importFromExcel calls, up to MaxInFlight  *)
(* of them suspended at once, their file reads ending in any order and in   *)
(* either way.  The two files give different records for one date.          *)

ConcurrentCsvFiles == {file \in CsvFiles : file.name = "records.csv"}

ConcurrentExcelFiles == {file \in ExcelFiles : file.name = "book.xlsx"}

NextImports ==
    \/ \E file \in ConcurrentCsvFiles : ImportFromCSV(file)
    \/ \E file \in ConcurrentExcelFiles : ImportFromExcel(file)
    \/ \E i \in 1..Len(inflight), read \in ReadOutcomes :
          ReadEnds(i, read, "4fzyo82m", 0)

SpecImports == Init /\ [][NextImports]_vars

-----------------------------------------------------------------------------
(* SpecUpload: the upload control of DataInput.  The user picks a file, the *)
(* handler dispatches on its name, the file read ends in either way, and    *)
(* the message disappears when its timer fires.  The button that opens the  *)
(* file dialog is disabled while isUploading is true.                       *)

UploadFiles ==
    ConcurrentCsvFiles
    \cup ExcelFiles
    \cup { [name |-> "RECORDS.CSV", text |-> "Date,Revenue\n2024-01-03,1\n"],
           [name |-> "book.xlsx.bak", text |-> "Date,Revenue\n2024-01-03,1\n"],
           [name |-> "csv", text |-> "Date,Revenue\n2024-01-03,1\n"] }

NextUpload ==
    \/ \E file \in UploadFiles : ~isUploading /\ HandleFileUpload(file)
    \/ \E i \in 1..Len(inflight), read \in ReadOutcomes :
          ReadEnds(i, read, "4fzyo82m", 0)
    \/ MessageExpires

SpecUpload == Init /\ [][NextUpload]_vars

-----------------------------------------------------------------------------
(* Queries: the getters and the derived metrics.  Each returns a value and  *)
(* assigns nothing; the value is kept in lastOp.result.                     *)

Query(op, result) ==
    /\ lastOp' = [op |-> op, arg |-> <<>>, pre |-> StoreNow, at |-> now,
                  failAt |-> 0, outcome |-> "returned", result |-> result]
    /\ UNCHANGED <<businessData, financialRecords, kpiData, storage, now>>
    /\ UNCHANGED page

GetBusinessData == Query("getBusinessData", businessData)

GetFinancialRecords == Query("getFinancialRecords", financialRecords)

GetKPIData == Query("getKPIData", kpiData)

\* the metrics with line 350 reading `equity = assets + liabilities`
FinancialMetricsAddingLiabilities(bd) ==
    IF bd = Null
    THEN Null
    ELSE [revenue |-> bd.revenue, costs |-> bd.costs,
          grossProfit |-> bd.revenue - bd.costs,
          netProfit |-> bd.revenue - bd.costs,
          assets |-> bd.assets, liabilities |-> bd.liabilities,
          equity |-> bd.assets + bd.liabilities,
          cashFlow |-> bd.cashFlow, expenses |-> bd.costs]

FinancialMetrics(bd) ==
    IF bd = Null
    THEN Null
    ELSE LET grossProfit == bd.revenue - bd.costs
             netProfit == grossProfit
             equity == bd.assets - bd.liabilities
         IN  [revenue |-> bd.revenue, costs |-> bd.costs,
              grossProfit |-> grossProfit, netProfit |-> netProfit,
              assets |-> bd.assets, liabilities |-> bd.liabilities,
              equity |-> equity, cashFlow |-> bd.cashFlow,
              expenses |-> bd.costs]

GetFinancialMetrics ==
    Query("getFinancialMetrics", FinancialMetrics(businessData))

-----------------------------------------------------------------------------
(* Export to a spreadsheet *)

\* XLSX.utils.json_to_sheet: one row per object, keyed by column name
BusinessSheetRow(bd) ==
    ("Company Name" :> bd.companyName) @@ ("Industry" :> bd.industry)
    @@ ("Employees" :> bd.employees) @@ ("Revenue" :> bd.revenue)
    @@ ("Costs" :> bd.costs) @@ ("Assets" :> bd.assets)
    @@ ("Liabilities" :> bd.liabilities) @@ ("Cash Flow" :> bd.cashFlow)
    @@ ("Created" :> bd.createdAt) @@ ("Updated" :> bd.updatedAt)

FinancialSheetRow(record) ==
    ("Date" :> record.date) @@ ("Revenue" :> record.revenue)
    @@ ("Expenses" :> record.expenses) @@ ("Profit" :> record.profit)
    @@ ("Cash Flow" :> record.cashFlow)

KpiSheetRow(kpi) ==
    ("Metric" :> kpi.metric) @@ ("Value" :> kpi.value)
    @@ ("Target" :> kpi.target) @@ ("Unit" :> kpi.unit)
    @@ ("Category" :> kpi.category)

\* the sheets appended to the workbook, in order, as <<name, rows>> pairs
ExportedSheets(bd, fr, kpis) ==
    (IF bd # Null
     THEN << <<"Business Data", <<BusinessSheetRow(bd)>> >> >>
     ELSE <<>>)
    \o (IF Len(fr) > 0
        THEN << <<"Financial Records",
                  [i \in 1..Len(fr) |-> FinancialSheetRow(fr[i])]>> >>
        ELSE <<>>)
    \o (IF Len(kpis) > 0
        THEN << <<"KPIs", [i \in 1..Len(kpis) |-> KpiSheetRow(kpis[i])]>> >>
        ELSE <<>>)

ExcelFileName(bd, t) ==
    (IF bd # Null /\ bd.companyName # "" THEN bd.companyName ELSE "Business")
        \o "_Data_" \o ISODate(t) \o ".xlsx"

\* dataManager.exportToExcel().  XLSX.write is library code: `written` is
\* whether it returns a buffer; over a workbook without sheets it may throw
\* instead, and then saveAs is not reached.
ExportToExcel(written) ==
    LET sheets == ExportedSheets(businessData, financialRecords, kpiData)
        file == [fileName |-> ExcelFileName(businessData, now),
                 type |-> "application/vnd.openxmlformats-officedocument.spreadsheetml.sheet",
                 sheets |-> sheets]
        call == [op |-> "exportToExcel", arg |-> <<>>, pre |-> StoreNow,
                 at |-> now, failAt |-> 0]
    IN  /\ written \/ Len(sheets) = 0
        /\ IF written
           THEN /\ lastOp' = call @@ [outcome |-> "returned",
                                      files |-> <<file>>]
                /\ saved' = [file |-> file, records |-> financialRecords]
           ELSE /\ lastOp' = call @@ [outcome |-> "threw", files |-> <<>>]
                /\ UNCHANGED saved
        /\ UNCHANGED <<businessData, financialRecords, kpiData, storage, now,
                       inflight, isUploading, message, fileInput>>

-----------------------------------------------------------------------------
(* SpecQueries: every operation of the store, the queries and the exports   *)
(* over a store that holds all three kinds, on a durable medium that        *)
(* accepts every write.                                                     *)

QueryProfileInputs ==
    { <<>>,
      [companyName |-> "Acme", revenue |-> 1000, costs |-> 600,
       assets |-> 5000, liabilities |-> 2000],
      [revenue |-> 100, costs |-> 250, assets |-> 10, liabilities |-> 40,
       cashFlow |-> 7] }

NextQueries ==
    \/ \E data \in QueryProfileInputs : SetBusinessData(data, "4fzyo82m", 0)
    \/ \E record \in SmallRecordInputs :
          AddFinancialRecord(record, 0) /\ Len(financialRecords') <= MaxRecords
    \/ \E updates \in SmallRecordUpdates :
          UpdateFinancialRecord(ISODate(0), updates, 0)
    \/ \E date \in InputDates : DeleteFinancialRecord(date, 0)
    \/ \E kpis \in SmallKpiLists : SetKPIData(kpis, 0)
    \/ \E kpi \in SmallKpiInputs : AddKPI(kpi, 0) /\ Len(kpiData') <= MaxKpis
    \/ \E updates \in SmallKpiUpdates : UpdateKPI("Churn", updates, 0)
    \/ DeleteKPI("Churn", 0)
    \/ ClearAllData(0)
    \/ GetBusinessData
    \/ GetFinancialRecords
    \/ GetKPIData
    \/ GetFinancialMetrics
    \/ ExportToCSV
    \/ \E written \in BOOLEAN : ExportToExcel(written)

SpecQueries == Init /\ [][NextQueries]_vars

-----------------------------------------------------------------------------
(* SpecDelete: deleteFinancialRecord over a store that holds a Profile,     *)
(* indicators and up to MaxRecords records, which updateFinancialRecord     *)
(* may have moved to another date.                                          *)

DeleteDates == InputDates \cup {ISODate(2)}

NextDelete ==
    \/ \E data \in SmallProfileInputs : SetBusinessData(data, "4fzyo82m", 0)
    \/ \E kpis \in SmallKpiLists : SetKPIData(kpis, 0)
    \/ \E record \in RecordInputs :
          AddFinancialRecord(record, 0) /\ Len(financialRecords') <= MaxRecords
    \/ \E date \in InputDates :
          UpdateFinancialRecord(date, [date |-> ISODate(2)], 0)
    \/ \E date \in DeleteDates : DeleteFinancialRecord(date, 0)

SpecDelete == Init /\ [][NextDelete]_vars

-----------------------------------------------------------------------------
(* SpecExcel: importFromExcel, one call at a time, of workbooks whose       *)
(* sheets are present, absent, empty or hold rows that the import skips,    *)
(* into a store that may already hold a Profile, a record and an indicator. *)

SheetFiles ==
    { \* indicators: rows with and without a metric name, with and without a
      \* category, under either spelling of the column, one metric twice
      [name |-> "kpis.xlsx",
       workbook |-> [Sheets |->
          ("KPIs" :>
              [rows |-> << ("Metric" :> "NPS") @@ ("Value" :> 40)
                              @@ ("Target" :> 50),
                           ("Metric" :> "") @@ ("Value" :> 9),
                           ("Value" :> 7) @@ ("Category" :> "growth"),
                           [metric |-> "Margin", value |-> 5,
                            category |-> "financial"],
                           ("Metric" :> "NPS") @@ ("Value" :> 41)
                              @@ ("Category" :> "") >>])]],
      \* every accepted sheet is there and none has a row that is imported
      [name |-> "blank.xlsx",
       workbook |-> [Sheets |->
          ("Business Data" :> [rows |-> <<>>])
          @@ ("Financials" :> [rows |-> << ("Revenue" :> 5) >>])
          @@ ("Metrics" :>
              [rows |-> << ("Metric" :> "") @@ ("Value" :> 1),
                           ("Value" :> 2) >>])]],
      \* no sheet under an accepted name
      [name |-> "notes.xlsx",
       workbook |-> [Sheets |->
          ("Sheet1" :> [rows |-> << ("Metric" :> "NPS") @@ ("Value" :> 1) >>])]],
      \* a Profile and records, no indicators sheet
      [name |-> "two.xlsx",
       workbook |-> [Sheets |->
          ("Company" :> [rows |-> << [companyName |-> "Bolt", revenue |-> 7],
                                     [companyName |-> "Cord"] >>])
          @@ ("Financial Records" :>
              [rows |-> << ("Date" :> "2024-01-02") @@ ("Revenue" :> 999),
                           ("Revenue" :> 5),
                           [date |-> "2024-01-01", profit |-> 3] >>])]],
      \* all three sheets, the records sheet is one that sheet_to_json
      \* throws on
      [name |-> "torn.xlsx",
       workbook |-> [Sheets |->
          ("Business Data" :> [rows |-> << ("Company Name" :> "Acme") >>])
          @@ ("Financial Records" :> [error |-> "Bad range"])
          @@ ("KPIs" :>
              [rows |-> << ("Metric" :> "NPS") @@ ("Value" :> 40) >>])]] }

NextExcel ==
    \/ \E data \in SmallProfileInputs : SetBusinessData(data, "4fzyo82m", 0)
    \/ \E record \in SmallRecordInputs :
          AddFinancialRecord(record, 0) /\ Len(financialRecords') <= MaxRecords
    \/ \E kpis \in SmallKpiLists : SetKPIData(kpis, 0)
    \/ \E file \in SheetFiles : inflight = <<>> /\ ImportFromExcel(file)
    \/ \E read \in ReadOutcomes :
          inflight # <<>> /\ ReadEnds(1, read, "4fzyo82m", 0)

SpecExcel == Init /\ [][NextExcel]_vars

-----------------------------------------------------------------------------
(* The export button of the DataInput form *)

\* handleExportCSV: dataManager.exportToCSV() inside try, then the success
\* message; the error message from the catch block.  Blob and saveAs are
\* library code: `written` is whether they return; alerts, files and shown
\* hold the arguments of alert, saveAs and showMessage.
HandleExportCSV(written) ==
    LET file == [fileName |-> CsvFileName(businessData, now),
                 type |-> "text/csv;charset=utf-8;",
                 text |-> CsvContent(financialRecords)]
        call == [op |-> "handleExportCSV", arg |-> <<>>, pre |-> StoreNow,
                 at |-> now, failAt |-> 0, outcome |-> "returned"]
    IN  /\ written \/ Len(financialRecords) > 0
        /\ IF Len(financialRecords) = 0
           THEN /\ ShowMessage("success",
                               "Financial data exported to CSV successfully")
                /\ lastOp' = call @@ [files |-> <<>>,
                     alerts |-> <<"No financial records to export">>,
                     shown |-> <<message'>>]
                /\ UNCHANGED saved
           ELSE IF written
           THEN /\ ShowMessage("success",
                               "Financial data exported to CSV successfully")
                /\ lastOp' = call @@ [files |-> <<file>>, alerts |-> <<>>,
                                      shown |-> <<message'>>]
                /\ saved' = [file |-> file, records |-> financialRecords]
           ELSE /\ ShowMessage("error", "Failed to export to CSV")
                /\ lastOp' = call @@ [files |-> <<>>, alerts |-> <<>>,
                                      shown |-> <<message'>>]
                /\ UNCHANGED saved
        /\ UNCHANGED <<businessData, financialRecords, kpiData, storage, now,
                       inflight, isUploading, fileInput>>

-----------------------------------------------------------------------------
(* SpecExport: the export button pressed over stores with and without       *)
(* records, while messages expire.                                          *)

NextExport ==
    \/ \E data \in SmallProfileInputs : SetBusinessData(data, "4fzyo82m", 0)
    \/ \E record \in RecordInputs :
          AddFinancialRecord(record, 0) /\ Len(financialRecords') <= MaxRecords
    \/ \E date \in InputDates : DeleteFinancialRecord(date, 0)
    \/ \E written \in BOOLEAN : HandleExportCSV(written)
    \/ MessageExpires

SpecExport == Init /\ [][NextExport]_vars

-----------------------------------------------------------------------------
(* SpecUploadFair: the upload control, every started file read ending.      *)

\* The file read of the upload ends in load, the import returns success,
\* and setBusinessData or onDataUpdate (a callback of the parent component)
\* throws inside the try block of handleFileUpload: the catch block shows
\* 'Failed to import file' over the success message, the finally block
\* resets the flag and the input.
ReadEndsCallbackThrows(i, tail, failAt) ==
    \E call \in {inflight[i]} :
    \E import \in {ImportResumed(call, "load", tail, failAt)} :
        /\ call.handler
        /\ import.result.success
        /\ businessData' = import.store.businessData
        /\ financialRecords' = import.store.financialRecords
        /\ kpiData' = import.store.kpiData
        /\ storage' = import.store.storage
        /\ inflight' = SubSeq(inflight, 1, i - 1)
                          \o SubSeq(inflight, i + 1, Len(inflight))
        /\ lastOp' = [op |-> call.op, arg |-> call.file, pre |-> StoreNow,
                      at |-> now, failAt |-> failAt,
                      outcome |-> import.settled, read |-> "load",
                      result |-> import.result, found |-> call.found,
                      threw |-> "onDataUpdate"]
        /\ ShowMessage("error", "Failed to import file")
        /\ isUploading' = FALSE
        /\ fileInput' = ""
        /\ UNCHANGED <<now, saved>>

\* a started FileReader fires load or error; the code never aborts a read
ReadFinishes ==
    \E i \in 1..Len(inflight) :
       \/ \E read \in ReadOutcomes : ReadEnds(i, read, "4fzyo82m", 0)
       \/ ReadEndsCallbackThrows(i, "4fzyo82m", 0)

NextUploadFair ==
    \/ \E file \in UploadFiles : ~isUploading /\ HandleFileUpload(file)
    \/ \E i \in 1..Len(inflight), read \in ReadOutcomes :
          ReadEnds(i, read, "4fzyo82m", 0)
    \/ \E i \in 1..Len(inflight) : ReadEndsCallbackThrows(i, "4fzyo82m", 0)
    \/ MessageExpires

SpecUploadFair ==
    Init /\ [][NextUploadFair]_vars /\ WF_vars(ReadFinishes)

-----------------------------------------------------------------------------
(* Properties of addKPI (SpecKpis) *)

\* C11: after an addKPI call the collection holds exactly one indicator with
\* the metric of the argument, that indicator is the argument (the values
\* supplied last), and the indicators with other metrics are the ones the
\* call found, in the order it found them.
C11_AddKpiReplacesSameMetric ==
    lastOp.op = "addKPI" =>
        LET kpi == lastOp.arg
            SameMetric(k) == k.metric = kpi.metric
            OtherMetric(k) == k.metric # kpi.metric
        IN  /\ SelectSeq(kpiData, SameMetric) = <<kpi>>
            /\ SelectSeq(kpiData, OtherMetric) =
                   SelectSeq(lastOp.pre, OtherMetric)

\* an addKPI call that found an indicator of the same metric with other
\* values, next to an indicator of another metric
C11_Witness_RepeatedMetric ==
    /\ lastOp.op = "addKPI"
    /\ \E i, j \in 1..Len(lastOp.pre) :
          /\ lastOp.pre[i].metric = lastOp.arg.metric
          /\ lastOp.pre[i] # lastOp.arg
          /\ lastOp.pre[j].metric # lastOp.arg.metric

-----------------------------------------------------------------------------
(* Defaults of setBusinessData (SpecProfile) *)

NumericFields ==
    {"employees", "revenue", "costs", "assets", "liabilities", "cashFlow"}

TextFields == {"companyName", "industry"}

\* C20: after a setBusinessData call, whatever Profile the call found, every
\* numeric field its argument omits reads 0 and every text field its
\* argument omits reads '', and the call has returned normally.
C20_OmittedFieldsTakeDefaults ==
    lastOp.op = "setBusinessData" =>
        /\ lastOp.outcome = "returned"
        /\ businessData # Null
        /\ \A f \in NumericFields \ DOMAIN lastOp.arg : businessData[f] = 0
        /\ \A f \in TextFields \ DOMAIN lastOp.arg : businessData[f] = ""

\* a setBusinessData call that omits a numeric and a text field which the
\* Profile it found held with values other than the defaults
C20_Witness_DefaultsOverPrevious ==
    /\ lastOp.op = "setBusinessData"
    /\ lastOp.pre # Null
    /\ \E f \in NumericFields \ DOMAIN lastOp.arg : lastOp.pre[f] # 0
    /\ \E f \in TextFields \ DOMAIN lastOp.arg : lastOp.pre[f] # ""

-----------------------------------------------------------------------------
(* Properties of the CSV round trip (SpecRoundTrip) *)

\* C12: when importFromCSV has read the file that exportToCSV saved and has
\* found a store without records, the records collection it leaves is the
\* collection the file was written from: the same dates and the same values
\* of revenue, expenses, profit and cashFlow, in the same order.
C12_CsvRoundTrip ==
    ( /\ lastOp.op = "importFromCSV"
      /\ lastOp.read = "load"
      /\ saved # Null
      /\ lastOp.arg = Saved
      /\ lastOp.pre.financialRecords = <<>> )
        => financialRecords = saved.records

-----------------------------------------------------------------------------
(* Properties of importFromCSV (SpecCsv) *)

RECURSIVE AddedOneByOne(_, _, _)
\* the records collection after addFinancialRecord is called at time t with
\* each of records in turn
AddedOneByOne(fr, records, t) ==
    IF records = <<>> THEN fr
    ELSE AddedOneByOne(AddRecord(fr, NewRecord(Head(records), t)),
                       Tail(records), t)

\* C13: a successful importFromCSV leaves the records collection that
\* calling addFinancialRecord once per accepted row, in file order, leaves:
\* for each date in the file the collection holds one record, made from the
\* last row with that date, and the records it found with a date that is not
\* in the file are all still there.
C13_ImportIsAddPerRow ==
    (lastOp.op = "importFromCSV" /\ lastOp.result.success) =>
        LET pre == lastOp.pre.financialRecords
            rows == CsvRecords(CsvLines(lastOp.arg.text))
            Occurrences(fr, r) == Cardinality({i \in 1..Len(fr) : fr[i] = r})
            InFile(d) == \E i \in 1..Len(rows) : rows[i].date = d
            LastRow(d) ==
                rows[CHOOSE i \in 1..Len(rows) :
                        /\ rows[i].date = d
                        /\ \A j \in (i + 1)..Len(rows) : rows[j].date # d]
        IN  /\ financialRecords = AddedOneByOne(pre, rows, lastOp.at)
            /\ \A i \in 1..Len(rows) :
                  LET Dated(r) == r.date = rows[i].date
                  IN  SelectSeq(financialRecords, Dated)
                         = <<LastRow(rows[i].date)>>
            /\ \A i \in 1..Len(pre) :
                  ~InFile(pre[i].date) =>
                      Occurrences(financialRecords, pre[i])
                         = Occurrences(pre, pre[i])
            /\ \A i \in 1..Len(financialRecords) :
                  \/ InFile(financialRecords[i].date)
                  \/ Occurrences(pre, financialRecords[i]) > 0

\* a successful import of a file that gives a date twice, into a store that
\* held a record with that date and a record with a date not in the file
C13_Witness_RepeatedAndExistingDate ==
    /\ lastOp.op = "importFromCSV"
    /\ lastOp.result.success
    /\ LET pre == lastOp.pre.financialRecords
           rows == CsvRecords(CsvLines(lastOp.arg.text))
       IN  /\ \E i, j \in 1..Len(rows) : i # j /\ rows[i].date = rows[j].date
           /\ \E i \in 1..Len(pre), j \in 1..Len(rows) :
                 pre[i].date = rows[j].date
           /\ \E i \in 1..Len(pre) :
                 \A j \in 1..Len(rows) : pre[i].date # rows[j].date

\* C15: importFromCSV of a text with fewer than two non-blank lines resolves
\* with success false and the message that asks for a header and one data
\* row, and leaves the store as it found it.
C15_TooFewLinesIsFailure ==
    ( /\ lastOp.op = "importFromCSV"
      /\ lastOp.read = "load"
      /\ Len(CsvLines(lastOp.arg.text)) < 2 )
        => /\ lastOp.result =
                 [success |-> FALSE,
                  message |-> "CSV file must have at least a header and one data row"]
           /\ StoreNow = lastOp.pre

\* an import of a header without data rows into a store that holds records
C15_Witness_HeaderAlone ==
    /\ lastOp.op = "importFromCSV"
    /\ lastOp.read = "load"
    /\ Len(CsvLines(lastOp.arg.text)) = 1
    /\ lastOp.pre.financialRecords # <<>>

\* the data rows of a CSV text that have at least as many fields as the
\* header row and a non-empty value under "date" or under "Date"
CountedRows(text) ==
    LET lines == CsvLines(text)
        headers == CsvCells(lines[1])
        Value(i, key) == Property(headers, CsvCells(lines[i]), key)
    IN  {i \in 2..Len(lines) :
            /\ Len(CsvCells(lines[i])) >= Len(headers)
            /\ \/ Value(i, "date") \notin {Undefined, <<"">>}
               \/ Value(i, "Date") \notin {Undefined, <<"">>}}

\* C16: the message of a successful importFromCSV gives the number of data
\* rows that have at least as many fields as the header row and a non-empty
\* value under "date" or "Date"; the other rows are not counted.
C16_CountIsAcceptedRows ==
    (lastOp.op = "importFromCSV" /\ lastOp.result.success) =>
        lastOp.result.message =
            "Successfully imported "
               \o ToString(Cardinality(CountedRows(lastOp.arg.text)))
               \o " financial records"

\* a successful import of a file with a row that is counted, a row shorter
\* than the header and a row without a date
C16_Witness_SkippedRows ==
    /\ lastOp.op = "importFromCSV"
    /\ lastOp.result.success
    /\ LET lines == CsvLines(lastOp.arg.text)
           headers == CsvCells(lines[1])
           counted == CountedRows(lastOp.arg.text)
       IN  /\ counted # {}
           /\ \E i \in 2..Len(lines) : Len(CsvCells(lines[i])) < Len(headers)
           /\ \E i \in (2..Len(lines)) \ counted :
                 Len(CsvCells(lines[i])) >= Len(headers)

-----------------------------------------------------------------------------
(* Properties of exportToCSV (SpecRoundTrip) *)

\* C17: exportToCSV leaves the store as it found it.  When it found no
\* record it has called alert and has saved no file; when it found records
\* it has saved exactly one file, whose first line is the header and whose
\* following lines are the records of the store, one per line, in the order
\* of the store.
C17_ExportWarnsOrSavesOneFile ==
    lastOp.op = "exportToCSV" =>
        LET fr == lastOp.pre.financialRecords
        IN  /\ StoreNow = lastOp.pre
            /\ IF fr = <<>>
               THEN /\ lastOp.alerts = <<"No financial records to export">>
                    /\ lastOp.files = <<>>
               ELSE /\ lastOp.alerts = <<>>
                    /\ Len(lastOp.files) = 1
                    /\ LET lines == Split(lastOp.files[1].text, "\n")
                       IN  /\ Len(lines) = 1 + Len(fr)
                           /\ lines[1] = "Date,Revenue,Expenses,Profit,Cash Flow"
                           /\ \A i \in 1..Len(fr) :
                                 Split(lines[i + 1], ",") =
                                    <<fr[i].date, ToString(fr[i].revenue),
                                      ToString(fr[i].expenses),
                                      ToString(fr[i].profit),
                                      ToString(fr[i].cashFlow)>>

\* exportToCSV has found no record and has called alert, after an earlier
\* call had saved a file of two records
C17_Witness_AlertAfterFile ==
    /\ lastOp.op = "exportToCSV"
    /\ lastOp.alerts # <<>>
    /\ saved # Null
    /\ Len(saved.records) = 2

-----------------------------------------------------------------------------
(* Properties of the import calls (SpecOutcomes, SpecImports) *)

\* C14: an import call, however its file read ended and whatever the parse
\* made of the file, has resolved with a record of success and message.
\* When the read was rejected or XLSX.read threw, success is false and the
\* store is as the call found it on resuming; when sheet_to_json threw on
\* the records sheet, success is false and the Profile that the call had
\* set from the sheet before is still set, in memory and in localStorage.
C14_ImportsResolveAndKeepMutations ==
    lastOp.op \in {"importFromCSV", "importFromExcel"} =>
        LET file == lastOp.arg
            rejected == lastOp.read = "error"
            parsed == lastOp.op = "importFromExcel" /\ ~rejected
            unreadable == parsed /\ "error" \in DOMAIN file.workbook
            RecordsSheetThrows ==
                LET b == SheetOf(file.workbook, "Business Data", "Company")
                    f == SheetOf(file.workbook, "Financial Records",
                                 "Financials")
                IN  /\ b = <<>> \/ "rows" \in DOMAIN b[1]
                    /\ f # <<>> /\ "error" \in DOMAIN f[1]
        IN  /\ lastOp.outcome = "resolved"
            /\ DOMAIN lastOp.result = {"success", "message"}
            /\ lastOp.result.success \in BOOLEAN
            /\ (rejected \/ unreadable) =>
                  ~lastOp.result.success /\ StoreNow = lastOp.pre
            /\ (parsed /\ ~unreadable /\ RecordsSheetThrows) =>
                  /\ ~lastOp.result.success
                  /\ \E tail \in RandomTails :
                        StoreNow = ImportBusinessSheet(lastOp.pre,
                                      file.workbook, lastOp.at, tail,
                                      lastOp.failAt).store

\* importFromExcel has resolved with success false after it had set the
\* Profile from the first sheet
C14_Witness_FailureAfterProfileSet ==
    /\ lastOp.op = "importFromExcel"
    /\ ~lastOp.result.success
    /\ businessData # lastOp.pre.businessData
    /\ storage # lastOp.pre.storage

\* the stores that the import call recorded in op, run from its first line
\* to its return with nothing in between, can leave when it finds store m
StoresOf(op, m) ==
    IF op.op = "importFromCSV"
    THEN {CsvImport(m, op.arg, op.read, op.at, op.failAt).store}
    ELSE {ExcelImport(m, op.arg, op.read, op.at, tail, op.failAt).store :
             tail \in RandomTails}

\* C19: a step that suspends an import at its file read leaves the store as
\* it is; a step in which a file read ends takes the store, in one step, to
\* the store that the whole import leaves when run on the store as it is
\* then; and when the call before was an import too, the store is the one
\* left by running the two imports one after the other, in the order in
\* which their reads ended, from the store the first of them resumed on.
C19_ImportsRunOneAfterTheOther ==
    [][ /\ Len(inflight') > Len(inflight) => StoreNow' = StoreNow
        /\ Len(inflight') < Len(inflight) =>
              /\ lastOp'.pre = StoreNow
              /\ StoreNow' \in StoresOf(lastOp', StoreNow)
              /\ lastOp.op \in {"importFromCSV", "importFromExcel"} =>
                    \E m \in StoresOf(lastOp, lastOp.pre) :
                        StoreNow' \in StoresOf(lastOp', m) ]_vars

\* an import has returned with success on a store that another import,
\* whose read ended while this one was suspended, had changed, and has
\* changed the store again
C19_Witness_ResumedOnChangedStore ==
    /\ lastOp.op \in {"importFromCSV", "importFromExcel"}
    /\ lastOp.result.success
    /\ lastOp.found # lastOp.pre
    /\ lastOp.pre # StoreNow
    /\ lastOp.found.financialRecords # <<>>

-----------------------------------------------------------------------------
(* Properties of the upload handler (SpecUpload) *)

\* C18: after handleFileUpload has run to its await or to its end, the store
\* is as the handler found it and
\*   - for a name that ends in .csv one more import is suspended, a call of
\*     importFromCSV with the file;
\*   - for a name that ends in .xlsx or .xls one more import is suspended, a
\*     call of importFromExcel with the file;
\*   - for any other name, such as one with the suffix in capitals or
\*     followed by more text, no import is added and the message asks for a
\*     CSV or Excel file.
C18_DispatchBySuffix ==
    lastOp.op = "handleFileUpload" =>
        LET file == lastOp.arg
            last == Len(file.name)
            \* the last n characters of the name are the text suffix
            Ends(n, suffix) ==
                last >= n /\ SubSeq(file.name, last - n + 1, last) = suffix
            Called(op) ==
                inflight = Append(lastOp.pending,
                                  [op |-> op, file |-> file, handler |-> TRUE,
                                   found |-> lastOp.pre])
        IN  /\ StoreNow = lastOp.pre
            /\ IF Ends(4, ".csv")
               THEN Called("importFromCSV")
               ELSE IF Ends(5, ".xlsx") \/ Ends(4, ".xls")
               THEN Called("importFromExcel")
               ELSE /\ inflight = lastOp.pending
                    /\ lastOp.shown =
                          <<[type |-> "error",
                             text |-> "Please upload a CSV or Excel file"]>>

\* the handler has turned away a file whose name holds a known suffix but
\* does not end in it, while the store held records
C18_Witness_RejectedName ==
    /\ lastOp.op = "handleFileUpload"
    /\ lastOp.outcome = "returned"
    /\ Includes(lastOp.arg.name, ".xlsx")
    /\ financialRecords # <<>>

-----------------------------------------------------------------------------
(* Properties of the queries (SpecQueries) *)

\* C21: getFinancialMetrics returns null exactly when the store holds no
\* Profile; otherwise its grossProfit is revenue - costs, its netProfit is the
\* grossProfit and its equity is assets - liabilities of the Profile the store
\* holds, and the call leaves the store as it found it.
C21_MetricsOfCurrentProfile ==
    lastOp.op = "getFinancialMetrics" =>
        /\ (lastOp.result = Null) <=> (businessData = Null)
        /\ businessData # Null =>
              /\ lastOp.result.grossProfit
                    = businessData.revenue - businessData.costs
              /\ lastOp.result.netProfit = lastOp.result.grossProfit
              /\ lastOp.result.equity
                    = businessData.assets - businessData.liabilities
        /\ StoreNow = lastOp.pre

\* the metrics of a Profile whose costs exceed its revenue and whose
\* liabilities exceed its assets
C21_Witness_NegativeProfitAndEquity ==
    /\ lastOp.op = "getFinancialMetrics"
    /\ businessData # Null
    /\ lastOp.result.grossProfit = -150
    /\ lastOp.result.equity = -30

Getters == {"getBusinessData", "getFinancialRecords", "getKPIData"}

\* what each getter returns over a store that holds nothing
EmptyResult(op) == IF op = "getBusinessData" THEN Null ELSE <<>>

\* C22: a getter called right after clearAllData, or right after another
\* getter that found the store empty, returns null (getBusinessData) or the
\* empty array (getFinancialRecords, getKPIData): whatever the store held,
\* clearAllData followed by the three getters yields null, [] and [].
C22_GettersAfterClear ==
    [][ /\ lastOp'.op \in Getters
        /\ \/ lastOp.op = "clearAllData"
           \/ /\ lastOp.op \in Getters
              /\ lastOp.result = EmptyResult(lastOp.op)
              /\ lastOp.pre.businessData = Null
              /\ lastOp.pre.financialRecords = <<>>
              /\ lastOp.pre.kpiData = <<>>
        => lastOp'.result = EmptyResult(lastOp'.op) ]_vars

\* getKPIData returns [] from a store whose Profile, records and indicators
\* an earlier exportToExcel wrote to a file: only clearAllData empties all
\* three
C22_Witness_EmptyAfterExportedData ==
    /\ lastOp.op = "getKPIData"
    /\ lastOp.result = <<>>
    /\ businessData = Null
    /\ financialRecords = <<>>
    /\ saved # Null
    /\ "sheets" \in DOMAIN saved.file
    /\ Len(saved.file.sheets) = 3

-----------------------------------------------------------------------------
(* Properties of deleteFinancialRecord (SpecDelete) *)

\* C23: deleteFinancialRecord with a date that no record of the store has
\* leaves the records array as it was (same length, same records, same
\* order), and leaves the Profile and the indicators as they were.
C23_DeleteOfAbsentDateKeepsStore ==
    [][ /\ lastOp'.op = "deleteFinancialRecord"
        /\ \A i \in 1..Len(financialRecords) :
              financialRecords[i].date # lastOp'.arg
        => /\ Len(financialRecords') = Len(financialRecords)
           /\ financialRecords' = financialRecords
           /\ businessData' = businessData
           /\ kpiData' = kpiData ]_vars

\* a date that none of two records has was deleted from a store that holds a
\* Profile and an indicator
C23_Witness_AbsentDateOfTwoRecords ==
    /\ lastOp.op = "deleteFinancialRecord"
    /\ Len(lastOp.pre) = 2
    /\ \A i \in 1..Len(lastOp.pre) : lastOp.pre[i].date # lastOp.arg
    /\ financialRecords = lastOp.pre
    /\ businessData # Null
    /\ kpiData # <<>>

-----------------------------------------------------------------------------
(* Properties of importFromExcel (SpecExcel) *)

\* the cell of a row under either spelling of a column, "" if it has none
CellOf(row, a, b) ==
    IF a \in DOMAIN row /\ row[a] # "" THEN row[a]
    ELSE IF b \in DOMAIN row /\ row[b] # "" THEN row[b]
    ELSE ""

\* the rows of the indicators sheet of a workbook that have a metric name
NamedKpiRows(workbook) ==
    LET sheet == SheetOf(workbook, "KPIs", "Metrics")
        Named(row) == CellOf(row, "Metric", "metric") # ""
    IN  IF sheet = <<>> \/ "error" \in DOMAIN sheet[1] THEN <<>>
        ELSE SelectSeq(sheet[1].rows, Named)

\* C24: after an import of a spreadsheet that returns success and whose
\* indicators sheet has a row with a metric name, the indicators of the store
\* are the rows that have a metric name, one indicator per row and in the
\* order of the sheet; the rows without a metric name are not among them; an
\* indicator whose row has no category has category "operational".
C24_NamedRowsBecomeIndicators ==
    (/\ lastOp.op = "importFromExcel"
     /\ lastOp.result.success
     /\ NamedKpiRows(lastOp.arg.workbook) # <<>>)
    => LET named == NamedKpiRows(lastOp.arg.workbook)
       IN  /\ Len(kpiData) = Len(named)
           /\ \A i \in 1..Len(named) :
                 /\ kpiData[i].metric = CellOf(named[i], "Metric", "metric")
                 /\ kpiData[i].metric # ""
                 /\ kpiData[i].category
                       = IF CellOf(named[i], "Category", "category") = ""
                         THEN "operational"
                         ELSE CellOf(named[i], "Category", "category")

\* a sheet of five rows, two of them without a metric name, gave three
\* indicators, the first and the last of category "operational"
C24_Witness_RowsDroppedAndDefaulted ==
    /\ lastOp.op = "importFromExcel"
    /\ lastOp.result.success
    /\ lastOp.arg.name = "kpis.xlsx"
    /\ Len(kpiData) = 3
    /\ kpiData[1].category = "operational"
    /\ kpiData[2].category = "financial"
    /\ kpiData[3].category = "operational"

AcceptedSheetNames ==
    {"Business Data", "Company", "Financial Records", "Financials", "KPIs",
     "Metrics"}

\* the sheets of a workbook that importFromExcel reads
SheetsRead(workbook) ==
    SheetOf(workbook, "Business Data", "Company")
       \o SheetOf(workbook, "Financial Records", "Financials")
       \o SheetOf(workbook, "KPIs", "Metrics")

\* the number of rows of the records sheet that have a date
DatedRowCount(workbook) ==
    LET sheet == SheetOf(workbook, "Financial Records", "Financials")
        Dated(row) == CellOf(row, "Date", "date") # ""
    IN  IF sheet = <<>> THEN 0 ELSE Len(SelectSeq(sheet[1].rows, Dated))

\* 1 if the Profile sheet has a row, else 0
ProfileRowCount(workbook) ==
    LET sheet == SheetOf(workbook, "Business Data", "Company")
    IN  IF sheet = <<>> THEN 0
        ELSE IF sheet[1].rows = <<>> THEN 0
        ELSE 1

\* C25: an importFromExcel call in which nothing throws (the file read ends
\* in load, XLSX.read and sheet_to_json return) returns success with the
\* message "Successfully imported N records", N being 1 if the Profile sheet
\* has a row, plus the number of rows of the records sheet that have a date,
\* plus the number of indicators imported; if the workbook has no sheet under
\* an accepted name, N is 0 and the store and localStorage are as the import
\* found them.
C25_CountOfSuccessfulImport ==
    (/\ lastOp.op = "importFromExcel"
     /\ lastOp.read = "load"
     /\ "error" \notin DOMAIN lastOp.arg.workbook
     /\ \A i \in 1..Len(SheetsRead(lastOp.arg.workbook)) :
           "error" \notin DOMAIN SheetsRead(lastOp.arg.workbook)[i])
    => LET workbook == lastOp.arg.workbook
           count == ProfileRowCount(workbook) + DatedRowCount(workbook)
                       + Len(NamedKpiRows(workbook))
       IN  /\ lastOp.outcome = "resolved"
           /\ lastOp.result.success
           /\ lastOp.result.message
                 = "Successfully imported " \o ToString(count) \o " records"
           /\ DOMAIN workbook.Sheets \cap AcceptedSheetNames = {}
                 => count = 0 /\ StoreNow = lastOp.pre

\* a Profile sheet of two rows and a records sheet of three rows, one of
\* them without a date, give the count 3
C25_Witness_UndatedRowNotCounted ==
    /\ lastOp.op = "importFromExcel"
    /\ lastOp.arg.name = "two.xlsx"
    /\ lastOp.result.success
    /\ lastOp.result.message = "Successfully imported 3 records"
    /\ lastOp.pre.businessData # Null
    /\ businessData.companyName = "Bolt"

\* C28: an import of a spreadsheet that returns success and whose indicators
\* sheet has a row with a metric name leaves as the indicators of the store
\* the indicators of the sheet and no other: an indicator held before the
\* import whose metric is not in the sheet is gone.  An import of a workbook
\* that has no indicators sheet, or one without a row that has a metric name,
\* leaves the indicators as they were.
C28_IndicatorsReplacedWholesale ==
    lastOp.op = "importFromExcel" =>
        LET named == NamedKpiRows(lastOp.arg.workbook)
            sheet == SheetOf(lastOp.arg.workbook, "KPIs", "Metrics")
        IN  IF named = <<>>
            THEN kpiData = lastOp.pre.kpiData
            ELSE lastOp.result.success =>
                    /\ kpiData = KpiRows(sheet[1].rows)
                    /\ \A j \in 1..Len(lastOp.pre.kpiData) :
                          (\A i \in 1..Len(named) :
                              CellOf(named[i], "Metric", "metric")
                                 # lastOp.pre.kpiData[j].metric)
                          => \A k \in 1..Len(kpiData) :
                                kpiData[k].metric
                                   # lastOp.pre.kpiData[j].metric

\* the store held the indicator Churn, the sheet has NPS and Margin: Churn
\* is gone after the import
C28_Witness_OldIndicatorRemoved ==
    /\ lastOp.op = "importFromExcel"
    /\ lastOp.result.success
    /\ NamedKpiRows(lastOp.arg.workbook) # <<>>
    /\ \E j \in 1..Len(lastOp.pre.kpiData) :
          lastOp.pre.kpiData[j].metric = "Churn"
    /\ \A k \in 1..Len(kpiData) : kpiData[k].metric # "Churn"
    /\ Len(kpiData) = 3

-----------------------------------------------------------------------------
(* Failed imports of a CSV file (SpecCsv) *)

\* C26: an importFromCSV call that returns a failure result does so because
\* the file read was rejected or the text has fewer than two non-blank
\* lines, and it leaves the three collections and localStorage exactly as
\* they were when it resumed: no record of the file has been applied.
C26_FailedCsvImportKeepsStore ==
    (lastOp.op = "importFromCSV" /\ ~lastOp.result.success)
    => /\ StoreNow = lastOp.pre
       /\ \/ lastOp.read = "error"
          \/ Len(CsvLines(lastOp.arg.text)) < 2

\* the read of a file with two data rows was rejected; the store holds the
\* one record it held before
C26_Witness_ReadRejected ==
    /\ lastOp.op = "importFromCSV"
    /\ lastOp.read = "error"
    /\ ~lastOp.result.success
    /\ lastOp.arg.name = "records.csv"
    /\ Len(financialRecords) = 1
    /\ financialRecords[1].date = ISODate(0)

-----------------------------------------------------------------------------
(* What each operation leaves alone (SpecQueries) *)

RecordOps ==
    {"addFinancialRecord", "updateFinancialRecord", "deleteFinancialRecord"}

KpiOps == {"setKPIData", "addKPI", "updateKPI", "deleteKPI"}

ReadOps ==
    Getters \cup {"getFinancialMetrics", "exportToCSV", "exportToExcel"}

\* C27: a record operation (add, update, delete) leaves the Profile and the
\* indicators as they were; an indicator operation (set, add, update, delete)
\* leaves the Profile and the records as they were; setBusinessData leaves
\* the records and the indicators as they were; a getter, getFinancialMetrics,
\* exportToCSV and exportToExcel leave the three collections and
\* localStorage as they were.
C27_OperationsKeepOtherKinds ==
    [][ /\ lastOp'.op \in RecordOps
           => businessData' = businessData /\ kpiData' = kpiData
        /\ lastOp'.op \in KpiOps
           => businessData' = businessData
              /\ financialRecords' = financialRecords
        /\ lastOp'.op = "setBusinessData"
           => financialRecords' = financialRecords /\ kpiData' = kpiData
        /\ lastOp'.op \in ReadOps
           => /\ businessData' = businessData
              /\ financialRecords' = financialRecords
              /\ kpiData' = kpiData
              /\ storage' = storage ]_vars

\* a record was added to a store that holds a Profile and an indicator, and
\* the store was then written to a spreadsheet file of three sheets
C27_Witness_ExportOfAllKinds ==
    /\ lastOp.op = "exportToExcel"
    /\ lastOp.outcome = "returned"
    /\ Len(lastOp.files[1].sheets) = 3
    /\ StoreNow = lastOp.pre
    /\ businessData.revenue = 1000

-----------------------------------------------------------------------------
(* Properties of the export button (SpecExport) *)

\* C30: handleExportCSV shows the success message "Financial data exported to
\* CSV successfully" only if exportToCSV has passed a file to saveAs; when
\* the store holds no record, exportToCSV alerts and returns, and no success
\* message is shown.
C30_SuccessOnlyAfterFile ==
    lastOp.op = "handleExportCSV" =>
        /\ lastOp.shown[1].type = "success" => lastOp.files # <<>>
        /\ lastOp.pre.financialRecords = <<>>
              => lastOp.shown[1].type # "success"

-----------------------------------------------------------------------------
(* Properties of the upload control (SpecUploadFair) *)

\* C29: whenever handleFileUpload has set isUploading, the flag is false
\* again and the file input is empty at some later time, whether the import
\* returns success or a failure result or a statement of the try block
\* throws; a file whose name has none of the accepted extensions leaves the
\* handler with the flag false and the input empty.  The upload button is
\* never disabled for good.
C29_UploadFlagIsReset ==
    /\ isUploading ~> (~isUploading /\ fileInput = "")
    /\ []((lastOp.op = "handleFileUpload" /\ lastOp.outcome = "returned")
             => (~isUploading /\ fileInput = ""))
    /\ []<>(~isUploading)

\* the flag is reset and the input cleared after a callback threw behind a
\* successful import
C29_Witness_ResetAfterThrow ==
    /\ "threw" \in DOMAIN lastOp
    /\ lastOp.result.success
    /\ message = [type |-> "error", text |-> "Failed to import file"]
    /\ ~isUploading
    /\ fileInput = ""
    /\ inflight = <<>>

====
